---------------------------- MODULE Spec2Model ----------------------------
(* A model of libdns/cloudns: the flat record encoding, the RRset          *)
(* reconciliation (makeOperationList) and Provider.SetRecords applying the *)
(* operation list through RetryWithBackoff against the remote zone.        *)
(*                                                                         *)
(* Go strings that the code formats or parses (Id, Ttl, Host) are          *)
(* sequences of one-character strings; opaque strings are TLA+ strings.    *)
(* A Go map is a function whose DOMAIN is the set of keys present; its      *)
(* unspecified iteration order is an order chosen by the action.           *)
EXTENDS Integers, Sequences, FiniteSets, TLC

VARIABLES
    records,          \* SetRecords' argument: the desired libdns records
    remote,           \* the zone held by the remote provider (flat records)
    nextId,           \* the next identifier the remote assigns
    p,                \* the Provider's retry configuration
    ctxDone,          \* whether ctx has been cancelled
    pc,               \* where SetRecords is
    upstreamRecords,  \* the snapshot GetClouDNSRecords returned
    oplist,           \* makeOperationList's result
    opIdx,            \* the index of the range loop over oplist
    attempt,          \* RetryWithBackoff's loop counter
    backoff,          \* RetryWithBackoff's current backoff
    ret,              \* SetRecords' result list
    retErr,           \* SetRecords' aggregated error
    retFetchErr,      \* whether SetRecords returned the fetch error
    calls,            \* history: the remote primitive calls started
    handed,           \* history: the operations handed to RetryWithBackoff
    outcome,          \* history: how each operation's retry ended
    execs,            \* history: the executions of operation() in this retry
    waited,           \* history: the waits started in this retry
    remained,         \* history: the operations not started when ctx was done
    arg,              \* the argument of a conversion applied on its own
    result,           \* what the conversion returned
    method,           \* the Provider method that is running
    matchIdx,         \* the index of DeleteRecords' loop over matchingRecords
    lastErr           \* RetryWithBackoff's err: the latest failure

vars == <<records, remote, nextId, p, ctxDone, pc, upstreamRecords, oplist,
          opIdx, attempt, backoff, ret, retErr, retFetchErr, calls, handed,
          outcome, execs, waited, remained, arg, result, method, matchIdx,
          lastErr>>

----------------------------------------------------------------------------
(* Bounds of the model *)

\* the longest desired record list
MaxDesired == 2
\* the longest fetched listing handed to the reconciliation alone
MaxExisting == 3
\* the most records the remote zone holds when SetRecords starts
MaxRemote == 2
\* the number of duration units in one second
Second == 2
\* the longest list handed to the grouping or to the diff of one group alone
MaxGroup == 3
\* the largest maxRetries handed to RetryWithBackoff on its own
MaxAttempts == 3
\* the longest record list handed to a method when the three methods that
\* change the zone are taken together
MaxShort == 1
\* the width, in bits, of the time.Duration values handed to RetryWithBackoff
\* on its own (int64 in the program)
DurationBits == 5

----------------------------------------------------------------------------
(* Strings and numbers *)

Digit(d) ==
    CASE d = 0 -> "0" [] d = 1 -> "1" [] d = 2 -> "2" [] d = 3 -> "3"
      [] d = 4 -> "4" [] d = 5 -> "5" [] d = 6 -> "6" [] d = 7 -> "7"
      [] d = 8 -> "8" [] d = 9 -> "9"

RECURSIVE ItoaNat(_)
ItoaNat(n) ==
    IF n < 10 THEN <<Digit(n)>> ELSE Append(ItoaNat(n \div 10), Digit(n % 10))

\* strconv.Itoa
Itoa(n) == IF n < 0 THEN <<"-">> \o ItoaNat(-n) ELSE ItoaNat(n)

\* int(ttl.Seconds()): the whole seconds of a duration, truncated toward zero
Seconds(ttl) == IF ttl >= 0 THEN ttl \div Second ELSE -((-ttl) \div Second)

validTTLs ==
    <<60, 300, 900, 1800, 3600, 21600, 43200, 86400, 172800, 259200, 604800,
      1209600>>

\* a variant of ttlRounder that skips a value the TTL is equal to
ttlRounderStrict(ttl) ==
    LET t == Seconds(ttl)
        fits == {i \in 1..Len(validTTLs) : t < validTTLs[i]}
    IN  IF fits = {} THEN 2592000
        ELSE validTTLs[CHOOSE i \in fits : \A j \in fits : i <= j]

\* a variant of ttlRounder that starts over beyond the largest value
ttlRounderWraps(ttl) ==
    LET t == Seconds(ttl)
        fits == {i \in 1..Len(validTTLs) : t <= validTTLs[i]}
    IN  IF fits = {} THEN validTTLs[1]
        ELSE validTTLs[CHOOSE i \in fits : \A j \in fits : i <= j]

ttlRounder(ttl) ==
    LET t == Seconds(ttl)
        fits == {i \in 1..Len(validTTLs) : t <= validTTLs[i]}
    IN  IF fits = {} THEN 2592000
        ELSE validTTLs[CHOOSE i \in fits : \A j \in fits : i <= j]

----------------------------------------------------------------------------
(* Records *)

\* type ApiDnsRecord struct
ApiDnsRecord(id, type, host, record, ttl) ==
    [Id |-> id, Type |-> type, Host |-> host, Record |-> record,
     Failover |-> "", Ttl |-> ttl, CAAFlag |-> 0, CAAType |-> "",
     CAAValue |-> "", Priority |-> 0, Port |-> 0, Weight |-> 0, Status |-> 0]

\* libdns.RR: the canonical (name, type, TTL, data) quadruple
RR(name, ttl, type, data) ==
    [Name |-> name, TTL |-> ttl, Type |-> type, Data |-> data]

\* netip.Addr: the zero Addr is invalid; a valid one is IPv4 or IPv6 and has
\* one textual form
ZeroAddr == [valid |-> FALSE, is6 |-> FALSE, text |-> "invalid IP"]
Addr(is6, text) == [valid |-> TRUE, is6 |-> is6, text |-> text]

\* netip.ParseAddr on the literals the model uses: two of them are other
\* spellings of an address, every other string is not an IP literal
ParseAddr(str) ==
    CASE str = "127.0.0.1" -> [addr |-> Addr(FALSE, "127.0.0.1"), ok |-> TRUE]
      [] str = "::1" -> [addr |-> Addr(TRUE, "::1"), ok |-> TRUE]
      [] str = "0:0:0:0:0:0:0:1" -> [addr |-> Addr(TRUE, "::1"), ok |-> TRUE]
      [] str = "::ffff:127.0.0.1" ->
             [addr |-> Addr(TRUE, "::ffff:127.0.0.1"), ok |-> TRUE]
      [] str = "::FFFF:127.0.0.1" ->
             [addr |-> Addr(TRUE, "::ffff:127.0.0.1"), ok |-> TRUE]
      [] OTHER -> [addr |-> ZeroAddr, ok |-> FALSE]

\* the typed records of libdns; libdns.RR has no impl field
Address(name, ttl, ip) ==
    [impl |-> "Address", Name |-> name, TTL |-> ttl, IP |-> ip]
CAA(name, ttl, flags, tag, value) ==
    [impl |-> "CAA", Name |-> name, TTL |-> ttl, Flags |-> flags, Tag |-> tag,
     Value |-> value]
CNAME(name, ttl, target) ==
    [impl |-> "CNAME", Name |-> name, TTL |-> ttl, Target |-> target]
MX(name, ttl, preference, target) ==
    [impl |-> "MX", Name |-> name, TTL |-> ttl, Preference |-> preference,
     Target |-> target]
NS(name, ttl, target) ==
    [impl |-> "NS", Name |-> name, TTL |-> ttl, Target |-> target]
SRV(service, transport, name, ttl, priority, weight, port, target) ==
    [impl |-> "SRV", Service |-> service, Transport |-> transport,
     Name |-> name, TTL |-> ttl, Priority |-> priority, Weight |-> weight,
     Port |-> port, Target |-> target]
TXT(name, ttl, text) ==
    [impl |-> "TXT", Name |-> name, TTL |-> ttl, Text |-> text]

\* the dynamic type a type switch on a libdns.Record sees
implOf(rec) == IF "impl" \in DOMAIN rec THEN rec.impl ELSE "RR"

\* fmt.Sprintf("_%v._%v.%v", service, transport, name)
srvHost(service, transport, name) ==
    <<"_">> \o service \o <<".", "_">> \o transport \o <<".">> \o name

\* the method RR() of a libdns.Record: its (name, TTL, type, data) quadruple
RRof(rec) ==
    LET impl == implOf(rec)
    IN  CASE impl = "Address" ->
             RR(rec.Name, rec.TTL, IF rec.IP.is6 THEN "AAAA" ELSE "A",
                rec.IP.text)
      [] impl = "CAA" ->
             RR(rec.Name, rec.TTL, "CAA",
                ToString(rec.Flags) \o " " \o rec.Tag \o " \""
                    \o rec.Value \o "\"")
      [] impl = "CNAME" -> RR(rec.Name, rec.TTL, "CNAME", rec.Target)
      [] impl = "MX" ->
             RR(rec.Name, rec.TTL, "MX",
                ToString(rec.Preference) \o " " \o rec.Target)
      [] impl = "NS" -> RR(rec.Name, rec.TTL, "NS", rec.Target)
      [] impl = "SRV" ->
             RR(srvHost(rec.Service, rec.Transport, rec.Name), rec.TTL, "SRV",
                ToString(rec.Priority) \o " " \o ToString(rec.Weight) \o " "
                    \o ToString(rec.Port) \o " " \o rec.Target)
      [] impl = "TXT" -> RR(rec.Name, rec.TTL, "TXT", rec.Text)
      [] OTHER -> rec

\* a variant of fromLibdnsRecord whose MX arm forgets the preference
fromLibdnsRecordNoPriority(rec, id) ==
    LET impl == implOf(rec)
        rr == RRof(rec)
        ttl == Itoa(ttlRounder(rr.TTL))
        type_ == rr.Type
    IN  CASE impl = "Address" ->
                 ApiDnsRecord(id, type_, rec.Name, rec.IP.text, ttl)
          [] impl = "CAA" ->
                 [ApiDnsRecord(id, type_, rec.Name, "", ttl)
                     EXCEPT !.CAAFlag = rec.Flags, !.CAAType = rec.Tag,
                            !.CAAValue = rec.Value]
          [] impl = "SRV" ->
                 [ApiDnsRecord(id, type_,
                      srvHost(rec.Service, rec.Transport, rec.Name),
                      rec.Target, ttl)
                     EXCEPT !.Priority = rec.Priority, !.Weight = rec.Weight,
                            !.Port = rec.Port]
          [] impl \in {"CNAME", "MX", "NS"} ->
                 ApiDnsRecord(id, type_, rec.Name, rec.Target, ttl)
          [] OTHER -> ApiDnsRecord(id, type_, rr.Name, rr.Data, ttl)

\* fromLibdnsRecord: one arm per typed record, the default arm for libdns.RR
\* and libdns.TXT
fromLibdnsRecord(rec, id) ==
    LET impl == implOf(rec)
        rr == RRof(rec)
        ttl == Itoa(ttlRounder(rr.TTL))
        type_ == rr.Type
    IN  CASE impl = "Address" ->
                 ApiDnsRecord(id, type_, rec.Name, rec.IP.text, ttl)
          [] impl = "CAA" ->
                 [ApiDnsRecord(id, type_, rec.Name, "", ttl)
                     EXCEPT !.CAAFlag = rec.Flags, !.CAAType = rec.Tag,
                            !.CAAValue = rec.Value]
          [] impl = "CNAME" ->
                 ApiDnsRecord(id, type_, rec.Name, rec.Target, ttl)
          [] impl = "MX" ->
                 [ApiDnsRecord(id, type_, rec.Name, rec.Target, ttl)
                     EXCEPT !.Priority = rec.Preference]
          [] impl = "NS" ->
                 ApiDnsRecord(id, type_, rec.Name, rec.Target, ttl)
          [] impl = "SRV" ->
                 [ApiDnsRecord(id, type_,
                      srvHost(rec.Service, rec.Transport, rec.Name),
                      rec.Target, ttl)
                     EXCEPT !.Priority = rec.Priority, !.Weight = rec.Weight,
                            !.Port = rec.Port]
          [] OTHER -> ApiDnsRecord(id, type_, rr.Name, rr.Data, ttl)

\* the value of a decimal digit, or -1
digitVal(c) ==
    CASE c = "0" -> 0 [] c = "1" -> 1 [] c = "2" -> 2 [] c = "3" -> 3
      [] c = "4" -> 4 [] c = "5" -> 5 [] c = "6" -> 6 [] c = "7" -> 7
      [] c = "8" -> 8 [] c = "9" -> 9 [] OTHER -> -1

RECURSIVE atoiDigits(_, _)
\* the decimal value of the characters s after the value n read so far
atoiDigits(s, n) ==
    IF s = <<>> THEN n ELSE atoiDigits(Tail(s), n * 10 + digitVal(Head(s)))

\* strconv.Atoi: an optional sign, then one or more decimal digits
Atoi(s) ==
    LET signed == s # <<>> /\ Head(s) \in {"+", "-"}
        digits == IF signed THEN Tail(s) ELSE s
        ok == digits # <<>> /\ \A i \in DOMAIN digits : digitVal(digits[i]) >= 0
    IN  IF ~ok THEN [n |-> 0, ok |-> FALSE]
        ELSE [n |-> IF signed /\ Head(s) = "-" THEN -atoiDigits(digits, 0)
                    ELSE atoiDigits(digits, 0),
              ok |-> TRUE]

\* the index of the first "." of s from position i on, or 0
RECURSIVE indexDot(_, _)
indexDot(s, i) ==
    IF i > Len(s) THEN 0 ELSE IF s[i] = "." THEN i ELSE indexDot(s, i + 1)

RECURSIVE SplitN(_, _)
\* strings.SplitN(s, ".", n) for n > 0: at most n parts, the last one
\* unsplit
SplitN(s, n) ==
    LET d == indexDot(s, 1)
    IN  IF n = 1 \/ d = 0 THEN <<s>>
        ELSE <<SubSeq(s, 1, d - 1)>> \o SplitN(SubSeq(s, d + 1, Len(s)), n - 1)

\* a variant of TrimPrefix that leaves the underscore
TrimPrefixKeeps(s) == s

\* strings.TrimPrefix(s, "_")
TrimPrefix(s) == IF s # <<>> /\ Head(s) = "_" THEN Tail(s) ELSE s

\* the errors of toLibdnsRecord, with the values their messages quote
InvalidTTL(ttl) == <<[msg |-> "Invalid TTL", quoted |-> ttl]>>
InvalidIP(record) == <<[msg |-> "Invalid IP", quoted |-> record]>>
NotEnoughComponents(host, got) ==
    <<[msg |-> "does not have enough components (expected >3, got)",
       quoted |-> host, got |-> got]>>

\* the zero values toLibdnsRecord returns next to an error
ZeroRR == RR(<<>>, 0, "", "")
ZeroAddress == Address(<<>>, 0, ZeroAddr)
ZeroSRV == SRV(<<>>, <<>>, <<>>, 0, 0, 0, 0, "")

\* a variant of toLibdnsRecord that splits an SRV host at every dot
toLibdnsRecordSplitAll(r) ==
    LET rawttl == Atoi(r.Ttl)
        ttl == rawttl.n * Second
        parts == SplitN(r.Host, Len(r.Host) + 1)
    IN  IF ~rawttl.ok THEN [rec |-> ZeroRR, err |-> InvalidTTL(r.Ttl)]
        ELSE IF r.Type = "SRV" THEN
            IF Len(parts) < 3
            THEN [rec |-> ZeroSRV,
                  err |-> NotEnoughComponents(r.Host, Len(parts))]
            ELSE [rec |-> SRV(TrimPrefix(parts[1]), TrimPrefix(parts[2]),
                              parts[3], ttl, r.Priority, r.Weight, r.Port,
                              r.Record),
                  err |-> <<>>]
        ELSE [rec |-> RR(r.Host, ttl, r.Type, r.Record), err |-> <<>>]

\* ApiDnsRecord.toLibdnsRecord: the record and the error it returns (<<>> is
\* nil)
toLibdnsRecord(r) ==
    LET rawttl == Atoi(r.Ttl)
        ttl == rawttl.n * Second
        addr == ParseAddr(r.Record)
        parts == SplitN(r.Host, 3)
    IN  IF ~rawttl.ok THEN [rec |-> ZeroRR, err |-> InvalidTTL(r.Ttl)]
        ELSE CASE r.Type \in {"A", "AAAA"} ->
                 IF ~addr.ok
                 THEN [rec |-> ZeroAddress, err |-> InvalidIP(r.Record)]
                 ELSE [rec |-> Address(r.Host, ttl, addr.addr), err |-> <<>>]
          [] r.Type = "CAA" ->
                 [rec |-> CAA(r.Host, ttl, r.CAAFlag, r.CAAType, r.CAAValue),
                  err |-> <<>>]
          [] r.Type = "CNAME" ->
                 [rec |-> CNAME(r.Host, ttl, r.Record), err |-> <<>>]
          [] r.Type = "MX" ->
                 [rec |-> MX(r.Host, ttl, r.Priority, r.Record), err |-> <<>>]
          [] r.Type = "NS" ->
                 [rec |-> NS(r.Host, ttl, r.Record), err |-> <<>>]
          [] r.Type = "SRV" ->
                 IF Len(parts) < 3
                 THEN [rec |-> ZeroSRV,
                       err |-> NotEnoughComponents(r.Host, Len(parts))]
                 ELSE [rec |-> SRV(TrimPrefix(parts[1]), TrimPrefix(parts[2]),
                                   parts[3], ttl, r.Priority, r.Weight,
                                   r.Port, r.Record),
                       err |-> <<>>]
          [] r.Type = "TXT" ->
                 [rec |-> TXT(r.Host, ttl, r.Record), err |-> <<>>]
          [] OTHER ->
                 [rec |-> RR(r.Host, ttl, r.Type, r.Record), err |-> <<>>]

nameAndType(name, type) == <<name, type>>

\* a map lookup: the zero value (a nil slice) for an absent key
Lookup(m, k) == IF k \in DOMAIN m THEN m[k] ELSE <<>>

Range(s) == {s[i] : i \in 1..Len(s)}

RECURSIVE FilterSeq(_, _, _)
\* the records of s whose key is k, in the order of s
FilterSeq(s, k, isFlat) ==
    IF s = <<>> THEN <<>>
    ELSE LET h == Head(s)
             hk == IF isFlat THEN nameAndType(h.Host, h.Type)
                   ELSE nameAndType(h.Name, h.Type)
         IN  IF hk = k THEN <<h>> \o FilterSeq(Tail(s), k, isFlat)
             ELSE FilterSeq(Tail(s), k, isFlat)

\* a variant of the grouping in which a record replaces its group
clouDNSRecordsToMapLastWins(recs) ==
    [k \in {nameAndType(r.Host, r.Type) : r \in Range(recs)} |->
        LET group == FilterSeq(recs, k, TRUE)
        IN  <<group[Len(group)]>>]

clouDNSRecordsToMap(recs) ==
    [k \in {nameAndType(r.Host, r.Type) : r \in Range(recs)} |->
        FilterSeq(recs, k, TRUE)]

\* the groups hold rr := res.RR(), not the record handed in
libdnsRecordsToMap(recs) ==
    LET rrs == [i \in DOMAIN recs |-> RRof(recs[i])]
    IN  [k \in {nameAndType(r.Name, r.Type) : r \in Range(rrs)} |->
            FilterSeq(rrs, k, FALSE)]

----------------------------------------------------------------------------
(* Reconciliation *)

nop == 0
addRecord == 1
modifyRecord == 2
deleteRecord == 3

operationEntry(op, record) == [op |-> op, record |-> record]

compareIDlessRecord(a, b) ==
    /\ a.Type = b.Type
    /\ a.Host = b.Host
    /\ a.Record = b.Record
    /\ a.Ttl = b.Ttl
    /\ a.CAAFlag = b.CAAFlag
    /\ a.CAAType = b.CAAType
    /\ a.Priority = b.Priority
    /\ a.Port = b.Port
    /\ a.Weight = b.Weight

\* a variant of the turn whose modify does not take over the identifier of
\* the existing record
walkStepDropsId(existingRRSet, desiredRRSet, i) ==
    LET existingOk == i <= Len(existingRRSet)
        desiredOk == i <= Len(desiredRRSet)
    IN  IF existingOk /\ desiredOk
        THEN LET modifiedRR == fromLibdnsRecord(desiredRRSet[i], <<>>)
             IN  [ret |-> IF ~compareIDlessRecord(existingRRSet[i], modifiedRR)
                          THEN <<operationEntry(modifyRecord, modifiedRR)>>
                          ELSE <<>>,
                  deleted |-> {}]
        ELSE IF existingOk /\ ~desiredOk
        THEN [ret |-> <<>>, deleted |-> {existingRRSet[i]}]
        ELSE IF ~existingOk /\ desiredOk
        THEN [ret |-> <<operationEntry(addRecord,
                            fromLibdnsRecord(desiredRRSet[i], <<>>))>>,
              deleted |-> {}]
        ELSE [ret |-> <<>>, deleted |-> {}]

\* a variant of the turn that modifies the record at position i without
\* comparing it to the desired one
walkStepAlwaysModify(existingRRSet, desiredRRSet, i) ==
    LET existingOk == i <= Len(existingRRSet)
        desiredOk == i <= Len(desiredRRSet)
    IN  IF existingOk /\ desiredOk
        THEN [ret |-> <<operationEntry(modifyRecord,
                            fromLibdnsRecord(desiredRRSet[i],
                                             existingRRSet[i].Id))>>,
              deleted |-> {}]
        ELSE IF existingOk /\ ~desiredOk
        THEN [ret |-> <<>>, deleted |-> {existingRRSet[i]}]
        ELSE IF ~existingOk /\ desiredOk
        THEN [ret |-> <<operationEntry(addRecord,
                            fromLibdnsRecord(desiredRRSet[i], <<>>))>>,
              deleted |-> {}]
        ELSE [ret |-> <<>>, deleted |-> {}]

\* a variant of the turn that looks for the desired content anywhere in the
\* existing slice before it modifies the record at position i
walkStepByContent(existingRRSet, desiredRRSet, i) ==
    LET existingOk == i <= Len(existingRRSet)
        desiredOk == i <= Len(desiredRRSet)
    IN  IF existingOk /\ desiredOk
        THEN LET modifiedRR ==
                     fromLibdnsRecord(desiredRRSet[i], existingRRSet[i].Id)
                 found ==
                     \E j \in DOMAIN existingRRSet :
                         compareIDlessRecord(existingRRSet[j], modifiedRR)
             IN  [ret |-> IF ~found
                          THEN <<operationEntry(modifyRecord, modifiedRR)>>
                          ELSE <<>>,
                  deleted |-> {}]
        ELSE IF existingOk /\ ~desiredOk
        THEN [ret |-> <<>>, deleted |-> {existingRRSet[i]}]
        ELSE IF ~existingOk /\ desiredOk
        THEN [ret |-> <<operationEntry(addRecord,
                            fromLibdnsRecord(desiredRRSet[i], <<>>))>>,
              deleted |-> {}]
        ELSE [ret |-> <<>>, deleted |-> {}]

\* one turn of createUpdateOperations' loop, at position i of both slices:
\* what it appends to ret and what it adds to the deleted set
walkStep(existingRRSet, desiredRRSet, i) ==
    LET existingOk == i <= Len(existingRRSet)
        desiredOk == i <= Len(desiredRRSet)
    IN  IF existingOk /\ desiredOk
        THEN LET modifiedRR ==
                     fromLibdnsRecord(desiredRRSet[i], existingRRSet[i].Id)
             IN  [ret |-> IF ~compareIDlessRecord(existingRRSet[i], modifiedRR)
                          THEN <<operationEntry(modifyRecord, modifiedRR)>>
                          ELSE <<>>,
                  deleted |-> {}]
        ELSE IF existingOk /\ ~desiredOk
        THEN [ret |-> <<>>, deleted |-> {existingRRSet[i]}]
        ELSE IF ~existingOk /\ desiredOk
        THEN [ret |-> <<operationEntry(addRecord,
                            fromLibdnsRecord(desiredRRSet[i], <<>>))>>,
              deleted |-> {}]
        ELSE [ret |-> <<>>, deleted |-> {}]

RECURSIVE walk(_, _, _, _)
\* the loop of createUpdateOperations from position i on, until both
\* iterators are exhausted
walk(existingRRSet, desiredRRSet, i, deleted) ==
    IF i > Len(existingRRSet) /\ i > Len(desiredRRSet)
    THEN [ret |-> <<>>, deleted |-> deleted]
    ELSE LET step == walkStep(existingRRSet, desiredRRSet, i)
             rest == walk(existingRRSet, desiredRRSet, i + 1,
                          deleted \cup step.deleted)
         IN  [ret |-> step.ret \o rest.ret, deleted |-> rest.deleted]

\* returns ret and the deleted map as the call leaves it
createUpdateOperations(existingRRSet, desiredRRSet, deleted) ==
    walk(existingRRSet, desiredRRSet, 1, deleted)

\* a variant of the create arm that stops after the first desired record
createOperationsFirstOnly(desiredRRSet) ==
    [i \in 1..(IF Len(desiredRRSet) = 0 THEN 0 ELSE 1) |->
        operationEntry(addRecord, fromLibdnsRecord(desiredRRSet[i], <<>>))]

\* the create arm of makeOperationList: one add per desired record
createOperations(desiredRRSet) ==
    [i \in 1..Len(desiredRRSet) |->
        operationEntry(addRecord, fromLibdnsRecord(desiredRRSet[i], <<>>))]

\* the body of makeOperationList's loop for the key nt
groupOperations(desired, existing, nt, deleted) ==
    IF Len(Lookup(existing, nt)) = 0
    THEN [ret |-> createOperations(desired[nt]), deleted |-> deleted]
    ELSE createUpdateOperations(Lookup(existing, nt), desired[nt], deleted)

RECURSIVE rangeDesired(_, _, _, _)
\* makeOperationList's loop over the desired map, visiting keyOrder in turn
rangeDesired(desired, existing, keyOrder, deleted) ==
    IF keyOrder = <<>> THEN [ret |-> <<>>, deleted |-> deleted]
    ELSE LET g == groupOperations(desired, existing, Head(keyOrder), deleted)
             rest == rangeDesired(desired, existing, Tail(keyOrder), g.deleted)
         IN  [ret |-> g.ret \o rest.ret, deleted |-> rest.deleted]

\* the keys of the deleted map when makeOperationList's first loop ends
deletedSet(desired, existing) ==
    UNION {groupOperations(desired, existing, nt, {}).deleted :
              nt \in DOMAIN desired}

\* a variant of makeOperationList that appends the deletions instead of
\* prepending them
makeOperationListDeletesLast(desired, existing, keyOrder, delOrder) ==
    LET list == rangeDesired(desired, existing, keyOrder, {}).ret
        ops == [i \in 1..Len(delOrder) |->
                   operationEntry(deleteRecord, delOrder[i])]
    IN  list \o ops

RECURSIVE unmentioned(_, _)
\* the existing records of the groups keys, as deletions
unmentioned(existing, keys) ==
    IF keys = {} THEN <<>>
    ELSE LET k == CHOOSE x \in keys : TRUE
         IN  [i \in 1..Len(existing[k]) |->
                 operationEntry(deleteRecord, existing[k][i])]
             \o unmentioned(existing, keys \ {k})

\* a variant of makeOperationList that also deletes the existing groups the
\* desired map does not mention
makeOperationListFullSync(desired, existing, keyOrder, delOrder) ==
    LET list == rangeDesired(desired, existing, keyOrder, {}).ret
        ops == [i \in 1..Len(delOrder) |->
                   operationEntry(deleteRecord, delOrder[i])]
    IN  unmentioned(existing, DOMAIN existing \ DOMAIN desired)
            \o ops \o list

RECURSIVE surplus(_, _, _)
\* the existing records beyond the desired ones, group by group, as a list
surplus(desired, existing, keyOrder) ==
    IF keyOrder = <<>> THEN <<>>
    ELSE LET e == Lookup(existing, Head(keyOrder))
             n == Len(desired[Head(keyOrder)])
         IN  [i \in 1..(IF Len(e) > n THEN Len(e) - n ELSE 0) |->
                 operationEntry(deleteRecord, e[n + i])]
             \o surplus(desired, existing, Tail(keyOrder))

\* a variant of makeOperationList that collects the deletions in a slice
\* instead of a map keyed by the record
makeOperationListDeletedSlice(desired, existing, keyOrder, delOrder) ==
    surplus(desired, existing, keyOrder)
        \o rangeDesired(desired, existing, keyOrder, {}).ret

\* keyOrder is the order in which range visits the desired map and delOrder
\* the order in which it visits the deleted map
makeOperationList(desired, existing, keyOrder, delOrder) ==
    LET list == rangeDesired(desired, existing, keyOrder, {}).ret
        ops == [i \in 1..Len(delOrder) |->
                   operationEntry(deleteRecord, delOrder[i])]
    IN  ops \o list

\* the orders in which a range loop can visit the map keys S
Orders(S) ==
    {o \in [1..Cardinality(S) -> S] : \A i, j \in DOMAIN o : i # j => o[i] # o[j]}

----------------------------------------------------------------------------
(* The inputs the model draws *)

HostA == <<"a">>
HostB == <<"b">>

\* the sequences over S of length at most n
SeqsUpTo(S, n) == UNION {[1..k -> S] : k \in 0..n}

\* desired records: two groups, two data values, one TTL that is rounded up
DesiredPool ==
    {RR(HostA, 60 * Second, "A", "d1"), RR(HostA, 60 * Second, "A", "d2"),
     RR(HostB, 60 * Second, "A", "d1"), RR(HostA, 61 * Second, "A", "d1")}

\* the desired records handed to SetRecords: two records of one group, the
\* second with a TTL that is rounded up, and a typed record of another group
SetPool ==
    {RR(HostA, 60 * Second, "A", "d1"), RR(HostA, 61 * Second, "A", "d2"),
     MX(HostB, 60 * Second, 1, "foo")}

\* the contents of fetched records; the last one carries a CAA value
ExistingContents ==
    {ApiDnsRecord(<<>>, "A", HostA, "d1", Itoa(60)),
     ApiDnsRecord(<<>>, "A", HostA, "d2", Itoa(60)),
     ApiDnsRecord(<<>>, "A", HostB, "d1", Itoa(60)),
     [ApiDnsRecord(<<>>, "A", HostA, "d1", Itoa(60)) EXCEPT !.CAAValue = "v"]}

\* fetched records: a listing may repeat a record
ExistingPool ==
    {[c EXCEPT !.Id = Itoa(i)] : c \in ExistingContents, i \in 1..2}

\* the contents of the records a zone holds when SetRecords starts
ZoneContents ==
    {ApiDnsRecord(<<>>, "A", HostA, "d1", Itoa(60)),
     [ApiDnsRecord(<<>>, "MX", HostB, "foo", Itoa(60)) EXCEPT !.Priority = 1]}

\* a zone: its records carry the identifiers 1, 2, ... the remote assigned
Zones ==
    {[i \in DOMAIN z |-> [z[i] EXCEPT !.Id = Itoa(i)]] :
        z \in SeqsUpTo(ZoneContents, MaxRemote)}

\* Providers that leave OperationRetries unset, allow one attempt, or two
Providers ==
    {[OperationRetries |-> n, InitialBackoff |-> 0, MaxBackoff |-> 0] :
        n \in {0, 1, 2}}

\* the strings a flat record's Ttl holds: accepted values, a value that is
\* not accepted, other spellings of 60, a negative number and no number
TtlStrings ==
    {Itoa(60), Itoa(300), Itoa(2592000), Itoa(61), <<"0", "6", "0">>,
     <<"+", "6", "0">>, Itoa(-5), <<"f", "o", "o">>, <<>>}

\* the hosts of flat records: a plain name, SRV hosts of three, two and four
\* components, one without underscores, one component and the empty host
FlatHosts ==
    {<<"n">>,
     <<"_", "h", ".", "_", "t", ".", "n">>,
     <<"_", "h", ".", "_", "t">>,
     <<"_", "h", ".", "_", "t", ".", "n", ".", "m">>,
     <<"h", ".", "t", ".", "n">>,
     <<"_", "h">>,
     <<>>}

\* the Record strings of flat records: IP literals in and out of their
\* textual form, a target and the empty string
FlatData ==
    {"127.0.0.1", "::1", "0:0:0:0:0:0:0:1", "::FFFF:127.0.0.1", "foo", ""}

\* the type-specific fields of a flat record: none, those of an MX, of an
\* SRV and of a CAA record
FlatExtras ==
    {[CAAFlag |-> 0, CAAType |-> "", CAAValue |-> "", Priority |-> 0,
      Port |-> 0, Weight |-> 0],
     [CAAFlag |-> 0, CAAType |-> "", CAAValue |-> "", Priority |-> 1,
      Port |-> 0, Weight |-> 0],
     [CAAFlag |-> 0, CAAType |-> "", CAAValue |-> "", Priority |-> 1,
      Port |-> 80, Weight |-> 5],
     [CAAFlag |-> 0, CAAType |-> "issue", CAAValue |-> "bar", Priority |-> 0,
      Port |-> 0, Weight |-> 0],
     [CAAFlag |-> 128, CAAType |-> "issue", CAAValue |-> "", Priority |-> 0,
      Port |-> 0, Weight |-> 0]}

FlatTypes == {"A", "AAAA", "CAA", "CNAME", "MX", "NS", "SRV", "TXT", "SSHFP"}

\* the identifiers handed to the codec
CodecIds == {<<>>, Itoa(7)}

\* the flat records handed to toLibdnsRecord
FlatPool ==
    {[Id |-> id, Type |-> type, Host |-> host, Record |-> record,
      Failover |-> "", Ttl |-> ttl, CAAFlag |-> x.CAAFlag,
      CAAType |-> x.CAAType, CAAValue |-> x.CAAValue,
      Priority |-> x.Priority, Port |-> x.Port, Weight |-> x.Weight,
      Status |-> 0] :
        id \in CodecIds, type \in FlatTypes, host \in FlatHosts,
        record \in FlatData, ttl \in TtlStrings, x \in FlatExtras}

\* the TTLs of generic records: accepted values, one between two accepted
\* values, one with a fraction of a second, and zero
GenericTTLs == {60 * Second, 300 * Second, 61 * Second, 60 * Second + 1, 0}

\* the service and transport labels of SRV records
SrvLabels == {<<"h">>, <<"_", "h">>, <<"h", ".", "x">>}

\* the names of generic records
GenericNames == {<<"n">>, <<"n", ".", "m">>, <<>>}

\* the generic records handed to fromLibdnsRecord, of every implementation
GenericPool ==
    UNION {
        {Address(n, t, a), CAA(n, t, 0, "issue", "bar"),
         CAA(n, t, 128, "iodef", ""), CNAME(n, t, "foo"), MX(n, t, 1, "foo"),
         NS(n, t, "foo"), TXT(n, t, "foo"), TXT(n, t, ""),
         RR(n, t, "SSHFP", "foo"), RR(n, t, "A", "127.0.0.1"),
         RR(n, t, "MX", "foo")} :
            n \in GenericNames, t \in GenericTTLs,
            a \in {Addr(FALSE, "127.0.0.1"), Addr(TRUE, "::1"),
                   Addr(TRUE, "::ffff:127.0.0.1"), ZeroAddr}}
    \cup {SRV(sv, tr, n, t, 1, 5, 80, "foo") :
            sv \in SrvLabels, tr \in SrvLabels, n \in GenericNames,
            t \in GenericTTLs}

\* the targets handed to matchDeleteTarget: quadruples with every field
\* given or left zero, and typed records
MatchTargets ==
    {RR(n, t, ty, d) :
        n \in {HostA, HostB}, t \in {0, 30 * Second, 60 * Second, 61 * Second},
        ty \in {"", "A", "MX"}, d \in {"", "127.0.0.1", "1 foo"}}
    \cup {MX(HostA, 60 * Second, 1, "foo"), MX(HostA, 0, 1, "foo"),
          TXT(HostA, 60 * Second, ""),
          Address(HostB, 61 * Second, Addr(FALSE, "127.0.0.1"))}

\* the candidates handed to matchDeleteTarget: records as toLibdnsRecord
\* returns them
MatchCandidates ==
    {Address(HostA, 60 * Second, Addr(FALSE, "127.0.0.1")),
     Address(HostB, 300 * Second, Addr(FALSE, "127.0.0.1")),
     Address(HostA, 60 * Second, Addr(TRUE, "::1")),
     MX(HostA, 60 * Second, 1, "foo"), MX(HostB, 300 * Second, 1, "foo"),
     MX(HostA, 60 * Second, 0, "1 foo"), TXT(HostA, 60 * Second, ""),
     RR(HostA, 60 * Second, "SSHFP", "1 foo")}

\* the records handed to AppendRecords: typed records as the tests append
\* them, one with a TTL that is rounded up, and a quadruple of a typed type
AppendPool ==
    {Address(HostA, 300 * Second, Addr(FALSE, "127.0.0.1")),
     MX(HostB, 60 * Second, 1, "foo"),
     TXT(HostA, 61 * Second, "foo"),
     SRV(<<"h">>, <<"t">>, HostA, 300 * Second, 1, 5, 80, "foo"),
     RR(HostB, 60 * Second, "MX", "1 foo")}

\* the contents of the zone DeleteRecords works on: two records of one
\* group, a record of the group that does not decode, and another group
DeleteContents ==
    {ApiDnsRecord(<<>>, "TXT", HostA, "foo", Itoa(60)),
     ApiDnsRecord(<<>>, "TXT", HostA, "bar", Itoa(300)),
     ApiDnsRecord(<<>>, "TXT", HostA, "foo", <<"f", "o", "o">>),
     [ApiDnsRecord(<<>>, "MX", HostB, "foo", Itoa(60)) EXCEPT !.Priority = 1]}

\* the zones AppendRecords and DeleteRecords start on
CallZones ==
    {[i \in DOMAIN z |-> [z[i] EXCEPT !.Id = Itoa(i)]] :
        z \in SeqsUpTo(DeleteContents, MaxRemote)}

\* the targets handed to DeleteRecords: a whole group, a typed record that
\* names one record of it, and a target without a type
TargetPool ==
    {RR(HostA, 0, "TXT", ""), TXT(HostA, 300 * Second, "bar"),
     RR(HostA, 0, "", "")}

\* Providers that allow one attempt, or two
CallProviders ==
    {[OperationRetries |-> n, InitialBackoff |-> 0, MaxBackoff |-> 0] :
        n \in {1, 2}}

\* the flat records handed to clouDNSRecordsToMap: three groups, one of them
\* with two records
GroupFlatPool ==
    {ApiDnsRecord(Itoa(1), "A", HostA, "d1", Itoa(60)),
     ApiDnsRecord(Itoa(2), "A", HostA, "d2", Itoa(60)),
     ApiDnsRecord(Itoa(3), "A", HostB, "d1", Itoa(60)),
     ApiDnsRecord(Itoa(4), "MX", HostA, "d1", Itoa(60))}

\* the generic records handed to libdnsRecordsToMap: a quadruple and a typed
\* record with the same quadruple, and records of three other groups
GroupGenericPool ==
    {RR(HostA, 60 * Second, "A", "127.0.0.1"),
     Address(HostA, 60 * Second, Addr(FALSE, "127.0.0.1")),
     RR(HostA, 61 * Second, "A", "d2"),
     RR(HostB, 60 * Second, "A", "d1"),
     MX(HostA, 60 * Second, 1, "foo"),
     SRV(<<"h">>, <<"t">>, HostA, 60 * Second, 1, 5, 80, "foo")}

\* the (name, data) pairs of the records makeOperationList is applied to:
\* three contents of one group and one of another
DiffContents ==
    {<<HostA, "d1">>, <<HostA, "d2">>, <<HostA, "d3">>, <<HostB, "d1">>}

\* the existing side: the records carry the identifiers of their positions
DiffExisting ==
    {[i \in DOMAIN s |->
         ApiDnsRecord(Itoa(i), "A", s[i][1], s[i][2], Itoa(60))] :
        s \in SeqsUpTo(DiffContents, MaxGroup)}

\* the desired side
DiffDesired ==
    {[i \in DOMAIN s |-> RR(s[i][1], 60 * Second, "A", s[i][2])] :
        s \in SeqsUpTo(DiffContents, MaxGroup)}

\* the contents of a zone in canonical form, one of each kind of record: an
\* address, a text, an MX, an SRV and a CAA record
SameContents ==
    {ApiDnsRecord(<<>>, "A", HostA, "127.0.0.1", Itoa(60)),
     ApiDnsRecord(<<>>, "TXT", HostA, "foo", Itoa(300)),
     [ApiDnsRecord(<<>>, "MX", HostB, "foo", Itoa(60)) EXCEPT !.Priority = 1],
     [ApiDnsRecord(<<>>, "SRV", srvHost(<<"h">>, <<"t">>, HostA), "foo",
                   Itoa(60))
         EXCEPT !.Priority = 1, !.Weight = 5, !.Port = 80],
     [ApiDnsRecord(<<>>, "CAA", HostA, "", Itoa(60))
         EXCEPT !.CAAType = "issue", !.CAAValue = "bar"]}

\* the listings of such a zone
SameZones ==
    {[i \in DOMAIN z |-> [z[i] EXCEPT !.Id = Itoa(i)]] :
        z \in SeqsUpTo(SameContents, MaxGroup)}

\* the accepted TTL values, in seconds
ttlSteps == Range(validTTLs) \cup {2592000}

\* the durations handed to ttlRounder: around every accepted value, with and
\* without a fraction of a second, zero, negative and beyond the largest
TtlPool ==
    UNION {{(v - 1) * Second, v * Second - 1, v * Second, v * Second + 1,
            (v + 1) * Second} : v \in ttlSteps}
    \cup {0, -1, -60 * Second, 3000000 * Second}

----------------------------------------------------------------------------
(* Provider configuration *)

DefaultOperationRetries == 5
DefaultInitialBackoff == 1 * Second
DefaultMaxBackoff == 30 * Second

getOperationRetries ==
    IF p.OperationRetries <= 0 THEN DefaultOperationRetries
    ELSE p.OperationRetries

getInitialBackoff ==
    IF p.InitialBackoff <= 0 THEN DefaultInitialBackoff ELSE p.InitialBackoff

getMaxBackoff ==
    IF p.MaxBackoff <= 0 THEN DefaultMaxBackoff ELSE p.MaxBackoff

----------------------------------------------------------------------------
(* Provider.SetRecords *)

\* a variant of errors.Join that keeps only the latest error
JoinKeepsLast(a, b) == b

\* errors.Join: an error is the sequence of the errors joined, nil is <<>>
Join(a, b) == a \o b

\* a variant of the range loop that walks oplist from its end
currentOpBackwards == oplist[Len(oplist) + 1 - opIdx]

\* the operation the range loop of SetRecords is at
currentOp == oplist[opIdx]

\* c.GetClouDNSRecords answers: SetRecords keeps the listing
FetchOk ==
    /\ pc = "start"
    /\ upstreamRecords' = remote
    /\ pc' = "reconcile"
    /\ UNCHANGED <<records, remote, nextId, p, ctxDone, oplist, opIdx,
                   attempt, backoff, ret, retErr, retFetchErr, calls, handed,
                   outcome>>
    /\ UNCHANGED <<execs, waited, arg, result, remained>>
    /\ UNCHANGED <<method, matchIdx, lastErr>>

\* a variant in which SetRecords carries on with an empty listing when
\* c.GetClouDNSRecords fails
FetchFailCarriesOn ==
    /\ pc = "start"
    /\ retFetchErr' = TRUE
    /\ pc' = "reconcile"
    /\ UNCHANGED <<records, remote, nextId, p, ctxDone, upstreamRecords,
                   oplist, opIdx, attempt, backoff, ret, retErr, calls,
                   handed, outcome>>
    /\ UNCHANGED <<execs, waited, arg, result, remained>>
    /\ UNCHANGED <<method, matchIdx, lastErr>>

\* c.GetClouDNSRecords fails: SetRecords returns nil and the error
FetchFail ==
    /\ pc = "start"
    /\ retFetchErr' = TRUE
    /\ pc' = "done"
    /\ UNCHANGED <<records, remote, nextId, p, ctxDone, upstreamRecords,
                   oplist, opIdx, attempt, backoff, ret, retErr, calls,
                   handed, outcome>>
    /\ UNCHANGED <<execs, waited, arg, result, remained>>
    /\ UNCHANGED <<method, matchIdx, lastErr>>

\* existing, rrsets and oplist are computed from the listing and the argument
Reconcile ==
    /\ pc = "reconcile"
    /\ LET existing == clouDNSRecordsToMap(upstreamRecords)
           rrsets == libdnsRecordsToMap(records)
       IN  \E keyOrder \in Orders(DOMAIN rrsets) :
           \E delOrder \in Orders(deletedSet(rrsets, existing)) :
               oplist' = makeOperationList(rrsets, existing, keyOrder, delOrder)
    /\ opIdx' = 1
    /\ pc' = "loop"
    /\ UNCHANGED <<records, remote, nextId, p, ctxDone, upstreamRecords,
                   attempt, backoff, ret, retErr, retFetchErr, calls, handed,
                   outcome>>
    /\ UNCHANGED <<execs, waited, arg, result, remained>>
    /\ UNCHANGED <<method, matchIdx, lastErr>>

\* the range loop hands the next operation to processOperation, which starts
\* RetryWithBackoff on it
processOperation ==
    /\ pc = "loop"
    /\ opIdx <= Len(oplist)
    /\ currentOp.op \in {addRecord, modifyRecord, deleteRecord}
    /\ handed' = Append(handed, opIdx)
    /\ attempt' = 0
    /\ backoff' = getInitialBackoff
    /\ pc' = "retry"
    /\ UNCHANGED <<records, remote, nextId, p, ctxDone, upstreamRecords,
                   oplist, opIdx, ret, retErr, retFetchErr, calls, outcome>>
    /\ execs' = 0
    /\ waited' = <<>>
    /\ UNCHANGED <<arg, result, remained>>
    /\ UNCHANGED <<method, matchIdx, lastErr>>

\* the range loop is over: SetRecords returns ret and retErr
Return ==
    /\ pc = "loop"
    /\ opIdx > Len(oplist)
    /\ pc' = "done"
    /\ UNCHANGED <<records, remote, nextId, p, ctxDone, upstreamRecords,
                   oplist, opIdx, attempt, backoff, ret, retErr, retFetchErr,
                   calls, handed, outcome>>
    /\ UNCHANGED <<execs, waited, arg, result, remained>>
    /\ UNCHANGED <<method, matchIdx, lastErr>>

\* a variant of the loop body that gives up the records collected so far when
\* an operation fails
loopBodyDropsOnError(rec, err, how) ==
    /\ retErr' = Join(retErr, err)
    /\ ret' = IF err # <<>> THEN <<>>
              ELSE IF rec # <<>> THEN ret \o rec ELSE ret
    /\ outcome' = Append(outcome, how)
    /\ opIdx' = opIdx + 1
    /\ pc' = "loop"

\* processOperation returned (rec, err) to the loop body of SetRecords;
\* rec is a sequence holding the record, or <<>> for nil
loopBody(rec, err, how) ==
    /\ retErr' = Join(retErr, err)
    /\ ret' = IF rec # <<>> THEN ret \o rec ELSE ret
    /\ outcome' = Append(outcome, how)
    /\ opIdx' = opIdx + 1
    /\ pc' = "loop"

\* the errors RetryWithBackoff returns for the operation at opIdx
ctxErr == <<[op |-> opIdx, err |-> "context canceled"]>>
attemptsErr ==
    <<[op |-> opIdx, err |-> "operation failed after attempts",
       attempts |-> getOperationRetries]>>

\* RetryWithBackoff, top of an attempt: ctx is done, it returns ctx.Err()
RetryCancelled ==
    /\ pc = "retry"
    /\ attempt < getOperationRetries
    /\ ctxDone
    /\ loopBody(<<>>, ctxErr, "cancelled")
    /\ UNCHANGED <<records, remote, nextId, p, ctxDone, upstreamRecords,
                   oplist, attempt, backoff, retFetchErr, calls, handed>>
    /\ UNCHANGED <<execs, waited, arg, result, remained>>
    /\ UNCHANGED <<method, matchIdx, lastErr>>

\* a variant of the top of an attempt that does not look at ctx
RetryProceedIgnoresCtx ==
    /\ pc = "retry"
    /\ attempt < getOperationRetries
    /\ pc' = "operation"
    /\ UNCHANGED <<records, remote, nextId, p, ctxDone, upstreamRecords,
                   oplist, opIdx, attempt, backoff, ret, retErr, retFetchErr,
                   calls, handed, outcome>>
    /\ UNCHANGED <<execs, waited, arg, result, remained>>
    /\ UNCHANGED <<method, matchIdx, lastErr>>

\* RetryWithBackoff, top of an attempt: ctx is not done, operation() is next
RetryProceed ==
    /\ pc = "retry"
    /\ attempt < getOperationRetries
    /\ ~ctxDone
    /\ pc' = "operation"
    /\ UNCHANGED <<records, remote, nextId, p, ctxDone, upstreamRecords,
                   oplist, opIdx, attempt, backoff, ret, retErr, retFetchErr,
                   calls, handed, outcome>>
    /\ UNCHANGED <<execs, waited, arg, result, remained>>
    /\ UNCHANGED <<method, matchIdx, lastErr>>

\* the remote primitive processOperation's switch calls for an operation
primitive(op) ==
    CASE op = addRecord -> "AddRecord"
      [] op = modifyRecord -> "UpdateRecord"
      [] op = deleteRecord -> "DeleteRecord"

\* the history of remote calls once operation() has called the primitive of
\* the current operation; the attempts of one operation are one entry
started ==
    IF calls # <<>> /\ calls[Len(calls)].idx = opIdx THEN calls
    ELSE Append(calls, [idx |-> opIdx, call |-> primitive(currentOp.op),
                        record |-> currentOp.record])

\* c.AddRecord succeeds: the remote stores the record under a new identifier
\* and echoes it
AddRecord(rec) == [rec EXCEPT !.Id = Itoa(nextId)]

\* c.UpdateRecord succeeds: the remote record with rec's identifier now holds
\* rec's content
UpdateRecord(zone, rec) ==
    [i \in DOMAIN zone |-> IF zone[i].Id = rec.Id THEN rec ELSE zone[i]]

\* c.DeleteRecord succeeds: the remote record with the identifier is gone
DeleteRecord(zone, id) == SelectSeq(zone, LAMBDA x : x.Id # id)

\* operation() of processOperation succeeds; RetryWithBackoff returns nil
OperationOk ==
    /\ pc = "operation"
    /\ calls' = started
    /\ \/ /\ currentOp.op = addRecord
          /\ remote' = Append(remote, AddRecord(currentOp.record))
          /\ nextId' = nextId + 1
          /\ loopBody(<<AddRecord(currentOp.record)>>, <<>>, "ok")
       \/ /\ currentOp.op = modifyRecord
          /\ \E i \in DOMAIN remote : remote[i].Id = currentOp.record.Id
          /\ remote' = UpdateRecord(remote, currentOp.record)
          /\ nextId' = nextId
          /\ loopBody(<<currentOp.record>>, <<>>, "ok")
       \/ /\ currentOp.op = deleteRecord
          /\ remote' = DeleteRecord(remote, currentOp.record.Id)
          /\ nextId' = nextId
          /\ loopBody(<<>>, <<>>, "ok")
    /\ UNCHANGED <<records, p, ctxDone, upstreamRecords, oplist, attempt,
                   backoff, retFetchErr, handed>>
    /\ execs' = execs + 1
    /\ UNCHANGED <<waited, arg, result, remained>>
    /\ UNCHANGED <<method, matchIdx, lastErr>>

\* operation() fails on an attempt that is not the last: the wait is next
OperationFail ==
    /\ pc = "operation"
    /\ attempt # getOperationRetries - 1
    /\ calls' = started
    /\ pc' = "wait"
    /\ UNCHANGED <<records, remote, nextId, p, ctxDone, upstreamRecords,
                   oplist, opIdx, attempt, backoff, ret, retErr, retFetchErr,
                   handed, outcome>>
    /\ execs' = execs + 1
    /\ waited' = Append(waited, backoff)
    /\ UNCHANGED <<arg, result, remained>>
    /\ UNCHANGED <<method, matchIdx, lastErr>>

\* a variant in which SetRecords returns at the first operation that fails
OperationFailLastReturns ==
    /\ pc = "operation"
    /\ attempt = getOperationRetries - 1
    /\ calls' = started
    /\ retErr' = Join(retErr, attemptsErr)
    /\ outcome' = Append(outcome, "failed")
    /\ pc' = "done"
    /\ UNCHANGED <<records, remote, nextId, p, ctxDone, upstreamRecords,
                   oplist, opIdx, attempt, backoff, ret, retFetchErr, handed>>
    /\ execs' = execs + 1
    /\ UNCHANGED <<waited, arg, result, remained>>
    /\ UNCHANGED <<method, matchIdx, lastErr>>

\* operation() fails on the last attempt: RetryWithBackoff returns the
\* wrapped error
OperationFailLast ==
    /\ pc = "operation"
    /\ attempt = getOperationRetries - 1
    /\ calls' = started
    /\ loopBody(<<>>, attemptsErr, "failed")
    /\ UNCHANGED <<records, remote, nextId, p, ctxDone, upstreamRecords,
                   oplist, attempt, backoff, retFetchErr, handed>>
    /\ execs' = execs + 1
    /\ UNCHANGED <<waited, arg, result, remained>>
    /\ UNCHANGED <<method, matchIdx, lastErr>>

\* a variant of the wait that returns nil when ctx is done
WaitCancelledSwallows ==
    /\ pc = "wait"
    /\ ctxDone
    /\ loopBody(<<>>, <<>>, "ok")
    /\ UNCHANGED <<records, remote, nextId, p, ctxDone, upstreamRecords,
                   oplist, attempt, backoff, retFetchErr, calls, handed>>
    /\ UNCHANGED <<execs, waited, arg, result, remained>>
    /\ UNCHANGED <<method, matchIdx, lastErr>>

\* the wait of RetryWithBackoff: ctx.Done() is chosen
WaitCancelled ==
    /\ pc = "wait"
    /\ ctxDone
    /\ loopBody(<<>>, ctxErr, "cancelled")
    /\ UNCHANGED <<records, remote, nextId, p, ctxDone, upstreamRecords,
                   oplist, attempt, backoff, retFetchErr, calls, handed>>
    /\ UNCHANGED <<execs, waited, arg, result, remained>>
    /\ UNCHANGED <<method, matchIdx, lastErr>>

\* a variant of the wait that does not count the attempt
WaitElapsedKeepsAttempt ==
    /\ pc = "wait"
    /\ backoff' = IF backoff * 2 > getMaxBackoff THEN getMaxBackoff
                  ELSE backoff * 2
    /\ attempt' = attempt
    /\ pc' = "retry"
    /\ UNCHANGED <<records, remote, nextId, p, ctxDone, upstreamRecords,
                   oplist, opIdx, ret, retErr, retFetchErr, calls, handed,
                   outcome>>
    /\ UNCHANGED <<execs, waited, arg, result, remained>>
    /\ UNCHANGED <<method, matchIdx, lastErr>>

\* the wait of RetryWithBackoff: the timer fires, the backoff doubles
WaitElapsed ==
    /\ pc = "wait"
    /\ backoff' = IF backoff * 2 > getMaxBackoff THEN getMaxBackoff
                  ELSE backoff * 2
    /\ attempt' = attempt + 1
    /\ pc' = "retry"
    /\ UNCHANGED <<records, remote, nextId, p, ctxDone, upstreamRecords,
                   oplist, opIdx, ret, retErr, retFetchErr, calls, handed,
                   outcome>>
    /\ UNCHANGED <<execs, waited, arg, result, remained>>
    /\ UNCHANGED <<method, matchIdx, lastErr>>

\* the caller cancels ctx, or its deadline passes, while RetryWithBackoff
\* runs: the only code of SetRecords that reads ctx
Cancel ==
    /\ pc \in {"retry", "operation", "wait"}
    /\ ~ctxDone
    /\ ctxDone' = TRUE
    /\ remained' = (Len(outcome) + 1 .. Len(oplist))
                       \ (IF pc = "operation" THEN {opIdx} ELSE {})
    /\ UNCHANGED <<records, remote, nextId, p, pc, upstreamRecords, oplist,
                   opIdx, attempt, backoff, ret, retErr, retFetchErr, calls,
                   handed, outcome>>
    /\ UNCHANGED <<execs, waited, arg, result>>
    /\ UNCHANGED <<method, matchIdx, lastErr>>

----------------------------------------------------------------------------
(* Provider.AppendRecords and Provider.DeleteRecords *)

\* a variant of the filter that compares the TTLs the remote would store
matchDeleteTargetQuantized(target, matched) ==
    LET matchedRR == RRof(matched)
        targetRR == RRof(target)
    IN  IF targetRR.Type # "" /\ targetRR.Type # matchedRR.Type THEN FALSE
        ELSE IF /\ targetRR.TTL # 0
                /\ ttlRounder(targetRR.TTL) # ttlRounder(matchedRR.TTL)
             THEN FALSE
        ELSE IF targetRR.Data # "" /\ targetRR.Data # matchedRR.Data THEN FALSE
        ELSE TRUE

\* the filter of DeleteRecords: a zero field of the target matches anything
matchDeleteTarget(target, matched) ==
    LET matchedRR == RRof(matched)
        targetRR == RRof(target)
    IN  IF targetRR.Type # "" /\ targetRR.Type # matchedRR.Type THEN FALSE
        ELSE IF targetRR.TTL # 0 /\ targetRR.TTL # matchedRR.TTL THEN FALSE
        ELSE IF targetRR.Data # "" /\ targetRR.Data # matchedRR.Data THEN FALSE
        ELSE TRUE

\* the variables of SetRecords and of the conversions, which AppendRecords
\* and DeleteRecords do not have
setOnlyVars == <<oplist, retFetchErr, handed, outcome, remained, arg, result>>

\* ctx.Err()
ctxError == <<[msg |-> "context canceled"]>>

\* the error the remote answers the k-th call of this method call with: the
\* code hands errors on without reading them, so each is a value of its own
failure(k) == <<[msg |-> "remote error", call |-> k]>>

\* fmt.Errorf("operation failed after %d attempts: %w", maxRetries, err)
attemptsError(maxRetries, e) ==
    <<[msg |-> "operation failed after attempts", attempts |-> maxRetries,
       wraps |-> e]>>

\* fmt.Errorf("Could not get records for zone %q: %w", zone, err)
fetchError(e) == <<[msg |-> "Could not get records for zone", wraps |-> e]>>

\* keyedRecords := clouDNSRecordsToMap(upstreamRecords)
keyedRecords == clouDNSRecordsToMap(upstreamRecords)

\* a variant of the lookup that keeps the first record of the group only
matchingRecordsFirstOnly ==
    LET rr == RRof(records[opIdx])
        group == Lookup(keyedRecords, nameAndType(rr.Name, rr.Type))
    IN  IF group = <<>> THEN <<>> ELSE <<Head(group)>>

\* matchingRecords := keyedRecords[nameAndType{name: rr.Name, type_: rr.Type}]
matchingRecords ==
    LET rr == RRof(records[opIdx])
    IN  Lookup(keyedRecords, nameAndType(rr.Name, rr.Type))

matchingRecord == matchingRecords[matchIdx]

\* the flat record AppendRecords hands to c.AddRecord
appended == fromLibdnsRecord(records[opIdx], <<>>)

\* the libdns.Record c.AddRecord returns: the stored record, decoded
echoed(flat) == toLibdnsRecord(flat).rec

\* the entry of the history of remote calls for the call operation() makes
called(ok) ==
    IF method = "AppendRecords"
    THEN [call |-> "AddRecord", record |-> appended, ok |-> ok]
    ELSE [call |-> "DeleteRecord", record |-> matchingRecord.Id, ok |-> ok]

\* the error the method returns when RetryWithBackoff returned e
\* (provider.go:71 and provider.go:198)
wrapped(e) ==
    IF method = "AppendRecords"
    THEN <<[msg |-> "failed to add record",
            quoted |-> RRof(records[opIdx]).Name, wraps |-> e]>>
    ELSE <<[msg |-> "failed to delete record",
            quoted |-> matchingRecord.Host, wraps |-> e]>>

\* a variant that returns the records collected so far next to the error
returnsErrorKeepsList(e) ==
    /\ ret' = ret
    /\ retErr' = wrapped(e)
    /\ pc' = "done"

\* RetryWithBackoff returned the error e: the method returns nil and the
\* wrapped error
returnsError(e) ==
    /\ ret' = <<>>
    /\ retErr' = wrapped(e)
    /\ pc' = "done"

\* RetryWithBackoff starts on the operation of the loop body
startsRetry ==
    /\ attempt' = 0
    /\ backoff' = getInitialBackoff
    /\ execs' = 0
    /\ waited' = <<>>
    /\ lastErr' = <<>>
    /\ pc' = "retry"

\* AppendRecords, loop head: RetryWithBackoff starts on the next record
AppendStart ==
    /\ method = "AppendRecords"
    /\ pc = "loop"
    /\ opIdx <= Len(records)
    /\ startsRetry
    /\ UNCHANGED <<records, remote, nextId, p, ctxDone, upstreamRecords,
                   opIdx, matchIdx, ret, retErr, calls, method, setOnlyVars>>

\* AppendRecords, the range loop is over: it returns createdRecords, nil
AppendReturn ==
    /\ method = "AppendRecords"
    /\ pc = "loop"
    /\ opIdx > Len(records)
    /\ pc' = "done"
    /\ UNCHANGED <<records, remote, nextId, p, ctxDone, upstreamRecords,
                   opIdx, matchIdx, attempt, backoff, execs, waited, lastErr,
                   ret, retErr, calls, method, setOnlyVars>>

\* DeleteRecords: c.GetClouDNSRecords fails, it returns nil and the error
DeleteFetchFail ==
    /\ method = "DeleteRecords"
    /\ pc = "start"
    /\ calls' = Append(calls, [call |-> "GetClouDNSRecords", record |-> <<>>,
                               ok |-> FALSE])
    /\ ret' = <<>>
    /\ retErr' = fetchError(failure(1))
    /\ pc' = "done"
    /\ UNCHANGED <<records, remote, nextId, p, ctxDone, upstreamRecords,
                   opIdx, matchIdx, attempt, backoff, execs, waited, lastErr,
                   method, setOnlyVars>>

\* DeleteRecords: c.GetClouDNSRecords answers, once, before the loops
DeleteFetchOk ==
    /\ method = "DeleteRecords"
    /\ pc = "start"
    /\ calls' = Append(calls, [call |-> "GetClouDNSRecords", record |-> <<>>,
                               ok |-> TRUE])
    /\ upstreamRecords' = remote
    /\ opIdx' = 1
    /\ pc' = "target"
    /\ UNCHANGED <<records, remote, nextId, p, ctxDone, matchIdx, attempt,
                   backoff, execs, waited, lastErr, ret, retErr, method,
                   setOnlyVars>>

\* DeleteRecords, outer loop head: the group of the next target is looked up
\* in the listing fetched at the start
DeleteNextTarget ==
    /\ method = "DeleteRecords"
    /\ pc = "target"
    /\ opIdx <= Len(records)
    /\ matchIdx' = 1
    /\ pc' = "match"
    /\ UNCHANGED <<records, remote, nextId, p, ctxDone, upstreamRecords,
                   opIdx, attempt, backoff, execs, waited, lastErr, ret,
                   retErr, calls, method, setOnlyVars>>

\* DeleteRecords, the outer loop is over: it returns deletedRecords, nil
DeleteReturn ==
    /\ method = "DeleteRecords"
    /\ pc = "target"
    /\ opIdx > Len(records)
    /\ pc' = "done"
    /\ UNCHANGED <<records, remote, nextId, p, ctxDone, upstreamRecords,
                   opIdx, matchIdx, attempt, backoff, execs, waited, lastErr,
                   ret, retErr, calls, method, setOnlyVars>>

\* DeleteRecords, the inner loop is over: the next target
DeleteGroupDone ==
    /\ method = "DeleteRecords"
    /\ pc = "match"
    /\ matchIdx > Len(matchingRecords)
    /\ opIdx' = opIdx + 1
    /\ pc' = "target"
    /\ UNCHANGED <<records, remote, nextId, p, ctxDone, upstreamRecords,
                   matchIdx, attempt, backoff, execs, waited, lastErr, ret,
                   retErr, calls, method, setOnlyVars>>

\* DeleteRecords, inner loop body: the candidate does not decode, it returns
\* nil and the error
DeleteDecodeError ==
    /\ method = "DeleteRecords"
    /\ pc = "match"
    /\ matchIdx <= Len(matchingRecords)
    /\ toLibdnsRecord(matchingRecord).err # <<>>
    /\ ret' = <<>>
    /\ retErr' = toLibdnsRecord(matchingRecord).err
    /\ pc' = "done"
    /\ UNCHANGED <<records, remote, nextId, p, ctxDone, upstreamRecords,
                   opIdx, matchIdx, attempt, backoff, execs, waited, lastErr,
                   calls, method, setOnlyVars>>

\* DeleteRecords, inner loop body: the candidate does not pass the filter
DeleteSkip ==
    /\ method = "DeleteRecords"
    /\ pc = "match"
    /\ matchIdx <= Len(matchingRecords)
    /\ toLibdnsRecord(matchingRecord).err = <<>>
    /\ ~matchDeleteTarget(records[opIdx], toLibdnsRecord(matchingRecord).rec)
    /\ matchIdx' = matchIdx + 1
    /\ UNCHANGED <<records, remote, nextId, p, ctxDone, pc, upstreamRecords,
                   opIdx, attempt, backoff, execs, waited, lastErr, ret,
                   retErr, calls, method, setOnlyVars>>

\* DeleteRecords, inner loop body: the candidate passes the filter and
\* RetryWithBackoff starts on its deletion
DeleteStart ==
    /\ method = "DeleteRecords"
    /\ pc = "match"
    /\ matchIdx <= Len(matchingRecords)
    /\ toLibdnsRecord(matchingRecord).err = <<>>
    /\ matchDeleteTarget(records[opIdx], toLibdnsRecord(matchingRecord).rec)
    /\ startsRetry
    /\ UNCHANGED <<records, remote, nextId, p, ctxDone, upstreamRecords,
                   opIdx, matchIdx, ret, retErr, calls, method, setOnlyVars>>

\* RetryWithBackoff, top of an attempt: ctx is done, it returns ctx.Err()
AttemptCancelled ==
    /\ pc = "retry"
    /\ attempt < getOperationRetries
    /\ ctxDone
    /\ returnsError(ctxError)
    /\ UNCHANGED <<records, remote, nextId, p, ctxDone, upstreamRecords,
                   opIdx, matchIdx, attempt, backoff, execs, waited, lastErr,
                   calls, method, setOnlyVars>>

\* RetryWithBackoff, top of an attempt: ctx is not done, operation() is next
AttemptProceed ==
    /\ pc = "retry"
    /\ attempt < getOperationRetries
    /\ ~ctxDone
    /\ pc' = "operation"
    /\ UNCHANGED <<records, remote, nextId, p, ctxDone, upstreamRecords,
                   opIdx, matchIdx, attempt, backoff, execs, waited, lastErr,
                   ret, retErr, calls, method, setOnlyVars>>

\* operation() succeeds: the remote applies the call, RetryWithBackoff
\* returns nil and the loop body appends the record
CallOk ==
    /\ pc = "operation"
    /\ calls' = Append(calls, called(TRUE))
    /\ execs' = execs + 1
    /\ \/ /\ method = "AppendRecords"
          /\ remote' = Append(remote, AddRecord(appended))
          /\ nextId' = nextId + 1
          /\ ret' = Append(ret, echoed(AddRecord(appended)))
          /\ opIdx' = opIdx + 1
          /\ pc' = "loop"
          /\ UNCHANGED matchIdx
       \/ /\ method = "DeleteRecords"
          /\ remote' = DeleteRecord(remote, matchingRecord.Id)
          /\ nextId' = nextId
          /\ ret' = Append(ret, toLibdnsRecord(matchingRecord).rec)
          /\ matchIdx' = matchIdx + 1
          /\ pc' = "match"
          /\ UNCHANGED opIdx
    /\ UNCHANGED <<records, p, ctxDone, upstreamRecords, attempt, backoff,
                   waited, lastErr, retErr, method, setOnlyVars>>

\* operation() fails on an attempt that is not the last: the wait is next
CallFail ==
    /\ pc = "operation"
    /\ attempt # getOperationRetries - 1
    /\ calls' = Append(calls, called(FALSE))
    /\ execs' = execs + 1
    /\ lastErr' = failure(Len(calls) + 1)
    /\ waited' = Append(waited, backoff)
    /\ pc' = "wait"
    /\ UNCHANGED <<records, remote, nextId, p, ctxDone, upstreamRecords,
                   opIdx, matchIdx, attempt, backoff, ret, retErr, method,
                   setOnlyVars>>

\* a variant of the last attempt that wraps the failure of the attempt before
CallFailLastStale ==
    /\ pc = "operation"
    /\ attempt = getOperationRetries - 1
    /\ calls' = Append(calls, called(FALSE))
    /\ execs' = execs + 1
    /\ lastErr' = failure(Len(calls) + 1)
    /\ returnsError(attemptsError(getOperationRetries, lastErr))
    /\ UNCHANGED <<records, remote, nextId, p, ctxDone, upstreamRecords,
                   opIdx, matchIdx, attempt, backoff, waited, method,
                   setOnlyVars>>

\* operation() fails on the last attempt: RetryWithBackoff returns the
\* failure wrapped with the number of attempts
CallFailLast ==
    /\ pc = "operation"
    /\ attempt = getOperationRetries - 1
    /\ calls' = Append(calls, called(FALSE))
    /\ execs' = execs + 1
    /\ lastErr' = failure(Len(calls) + 1)
    /\ returnsError(attemptsError(getOperationRetries, lastErr'))
    /\ UNCHANGED <<records, remote, nextId, p, ctxDone, upstreamRecords,
                   opIdx, matchIdx, attempt, backoff, waited, method,
                   setOnlyVars>>

\* the wait of RetryWithBackoff: ctx.Done() is chosen
BackoffCancelled ==
    /\ pc = "wait"
    /\ ctxDone
    /\ returnsError(ctxError)
    /\ UNCHANGED <<records, remote, nextId, p, ctxDone, upstreamRecords,
                   opIdx, matchIdx, attempt, backoff, execs, waited, lastErr,
                   calls, method, setOnlyVars>>

\* the wait of RetryWithBackoff: the timer fires, the backoff doubles
BackoffElapsed ==
    /\ pc = "wait"
    /\ backoff' = IF backoff * 2 > getMaxBackoff THEN getMaxBackoff
                  ELSE backoff * 2
    /\ attempt' = attempt + 1
    /\ pc' = "retry"
    /\ UNCHANGED <<records, remote, nextId, p, ctxDone, upstreamRecords,
                   opIdx, matchIdx, execs, waited, lastErr, ret, retErr,
                   calls, method, setOnlyVars>>

\* the caller cancels ctx, or its deadline passes, while RetryWithBackoff
\* runs
CancelCall ==
    /\ pc \in {"retry", "operation", "wait"}
    /\ ~ctxDone
    /\ ctxDone' = TRUE
    /\ UNCHANGED <<records, remote, nextId, p, pc, upstreamRecords, opIdx,
                   matchIdx, attempt, backoff, execs, waited, lastErr, ret,
                   retErr, calls, method, setOnlyVars>>

----------------------------------------------------------------------------
(* RetryWithBackoff called on its own *)

\* the largest time.Duration
MaxDuration == 2 ^ (DurationBits - 1) - 1

\* the value a signed integer of DurationBits bits holds after an arithmetic
\* result n
wrapDuration(n) ==
    LET m == n % (2 ^ DurationBits)
    IN  IF m > MaxDuration THEN m - 2 ^ DurationBits ELSE m

\* what the function leaves alone
retryOnlyVars ==
    <<records, remote, nextId, p, upstreamRecords, oplist, opIdx, ret,
      retFetchErr, handed, outcome, remained, matchIdx, method, arg, result>>

\* return e
retryReturns(e) ==
    /\ retErr' = e
    /\ pc' = "returned"

\* attempt < maxRetries is false: the loop is over, return err
RetryLoopEnd ==
    /\ pc = "retry"
    /\ ~(attempt < arg.maxRetries)
    /\ retryReturns(lastErr)
    /\ UNCHANGED <<ctxDone, attempt, backoff, lastErr, execs, waited, calls,
                   retryOnlyVars>>

\* the first select: ctx is done, return ctx.Err()
RetryCtxDone ==
    /\ pc = "retry"
    /\ attempt < arg.maxRetries
    /\ ctxDone
    /\ retryReturns(ctxError)
    /\ UNCHANGED <<ctxDone, attempt, backoff, lastErr, execs, waited, calls,
                   retryOnlyVars>>

\* the first select: the default case, operation() is next
RetryOperation ==
    /\ pc = "retry"
    /\ attempt < arg.maxRetries
    /\ ~ctxDone
    /\ pc' = "operation"
    /\ UNCHANGED <<ctxDone, attempt, backoff, lastErr, retErr, execs, waited,
                   calls, retryOnlyVars>>

\* err = operation() is nil: return nil
OperationNil ==
    /\ pc = "operation"
    /\ calls' = Append(calls, [call |-> "operation", ok |-> TRUE])
    /\ execs' = execs + 1
    /\ lastErr' = <<>>
    /\ retryReturns(<<>>)
    /\ UNCHANGED <<ctxDone, attempt, backoff, waited, retryOnlyVars>>

\* err = operation() is an error and the attempt is not the last: the second
\* select starts the timer time.After(backoff)
OperationErr ==
    /\ pc = "operation"
    /\ attempt # arg.maxRetries - 1
    /\ calls' = Append(calls, [call |-> "operation", ok |-> FALSE])
    /\ execs' = execs + 1
    /\ lastErr' = failure(Len(calls'))
    /\ waited' = Append(waited, backoff)
    /\ pc' = "wait"
    /\ UNCHANGED <<ctxDone, attempt, backoff, retErr, retryOnlyVars>>

\* err = operation() is an error and the attempt is the last
OperationErrLast ==
    /\ pc = "operation"
    /\ attempt = arg.maxRetries - 1
    /\ calls' = Append(calls, [call |-> "operation", ok |-> FALSE])
    /\ execs' = execs + 1
    /\ lastErr' = failure(Len(calls'))
    /\ retryReturns(attemptsError(arg.maxRetries, lastErr'))
    /\ UNCHANGED <<ctxDone, attempt, backoff, waited, retryOnlyVars>>

\* the second select: ctx.Done() is chosen, return ctx.Err()
TimerCtxDone ==
    /\ pc = "wait"
    /\ ctxDone
    /\ retryReturns(ctxError)
    /\ UNCHANGED <<ctxDone, attempt, backoff, lastErr, execs, waited, calls,
                   retryOnlyVars>>

\* the second select: the timer is chosen; backoff *= 2, capped at
\* maxBackoff, and attempt++
TimerFired ==
    /\ pc = "wait"
    /\ backoff' = LET doubled == wrapDuration(backoff * 2)
                  IN  IF doubled > arg.maxBackoff THEN arg.maxBackoff
                      ELSE doubled
    /\ attempt' = attempt + 1
    /\ pc' = "retry"
    /\ UNCHANGED <<ctxDone, lastErr, retErr, execs, waited, calls,
                   retryOnlyVars>>

\* the caller cancels ctx, or its deadline passes, before the function
\* returns
CancelRetry ==
    /\ pc \in {"retry", "operation", "wait"}
    /\ ~ctxDone
    /\ ctxDone' = TRUE
    /\ UNCHANGED <<pc, attempt, backoff, lastErr, retErr, execs, waited,
                   calls, retryOnlyVars>>

\* RetryWithBackoff(ctx, operation, maxRetries, initialBackoff, maxBackoff)
\* with an operation that may fail each time it is executed
InitRetry ==
    /\ arg \in [maxRetries : -1..MaxAttempts,
                initialBackoff : {0, 1, 3, MaxDuration - 2},
                maxBackoff : {2, 5, MaxDuration}]
    /\ method = "RetryWithBackoff"
    /\ pc = "retry"
    /\ attempt = 0
    /\ backoff = arg.initialBackoff
    /\ lastErr = <<>>
    /\ ctxDone \in BOOLEAN
    /\ result = <<>>
    /\ records = <<>>
    /\ remote = <<>>
    /\ nextId = 1
    /\ p = [OperationRetries |-> 0, InitialBackoff |-> 0, MaxBackoff |-> 0]
    /\ upstreamRecords = <<>>
    /\ oplist = <<>>
    /\ opIdx = 0
    /\ ret = <<>>
    /\ retErr = <<>>
    /\ retFetchErr = FALSE
    /\ calls = <<>>
    /\ handed = <<>>
    /\ outcome = <<>>
    /\ execs = 0
    /\ waited = <<>>
    /\ remained = {}
    /\ matchIdx = 0

NextRetry ==
    \/ RetryLoopEnd
    \/ RetryCtxDone
    \/ RetryOperation
    \/ OperationNil
    \/ OperationErr
    \/ OperationErrLast
    \/ TimerCtxDone
    \/ TimerFired
    \/ CancelRetry

SpecRetry == InitRetry /\ [][NextRetry]_vars

----------------------------------------------------------------------------
(* Specifications *)

\* one SetRecords call on a zone nobody else changes
Init ==
    /\ records \in SeqsUpTo(SetPool, MaxDesired)
    /\ remote \in Zones
    /\ nextId = MaxRemote + 1
    /\ p \in Providers
    /\ ctxDone = FALSE
    /\ pc = "start"
    /\ upstreamRecords = <<>>
    /\ oplist = <<>>
    /\ opIdx = 0
    /\ attempt = 0
    /\ backoff = 0
    /\ ret = <<>>
    /\ retErr = <<>>
    /\ retFetchErr = FALSE
    /\ calls = <<>>
    /\ handed = <<>>
    /\ outcome = <<>>
    /\ execs = 0
    /\ waited = <<>>
    /\ remained = {}
    /\ method = "SetRecords"
    /\ matchIdx = 0
    /\ lastErr = <<>>
    /\ arg = <<>>
    /\ result = <<>>

Next ==
    \/ FetchOk
    \/ FetchFail
    \/ Reconcile
    \/ processOperation
    \/ Return
    \/ RetryCancelled
    \/ RetryProceed
    \/ OperationOk
    \/ OperationFail
    \/ OperationFailLast
    \/ WaitCancelled
    \/ WaitElapsed
    \/ Cancel

Spec == Init /\ [][Next]_vars

\* makeOperationList alone, on any desired list and any fetched listing
InitReconcile ==
    /\ records \in SeqsUpTo(DesiredPool, MaxDesired)
    /\ upstreamRecords \in SeqsUpTo(ExistingPool, MaxExisting)
    /\ remote = <<>>
    /\ nextId = 1
    /\ p = [OperationRetries |-> 0, InitialBackoff |-> 0, MaxBackoff |-> 0]
    /\ ctxDone = FALSE
    /\ pc = "reconcile"
    /\ oplist = <<>>
    /\ opIdx = 0
    /\ attempt = 0
    /\ backoff = 0
    /\ ret = <<>>
    /\ retErr = <<>>
    /\ retFetchErr = FALSE
    /\ calls = <<>>
    /\ handed = <<>>
    /\ outcome = <<>>
    /\ execs = 0
    /\ waited = <<>>
    /\ remained = {}
    /\ method = "SetRecords"
    /\ matchIdx = 0
    /\ lastErr = <<>>
    /\ arg = <<>>
    /\ result = <<>>

NextReconcile == Reconcile

SpecReconcile == InitReconcile /\ [][NextReconcile]_vars

\* the variables of SetRecords, which the conversions leave alone
setRecordsVars ==
    <<records, remote, nextId, p, ctxDone, upstreamRecords, oplist, opIdx,
      attempt, backoff, ret, retErr, retFetchErr, calls, handed, outcome,
      execs, waited, remained, method, matchIdx, lastErr>>

\* libdnsrec, err := rec.toLibdnsRecord()
Decode ==
    /\ pc = "flat"
    /\ result' = [libdnsrec |-> toLibdnsRecord(arg.rec).rec,
                  err |-> toLibdnsRecord(arg.rec).err]
    /\ pc' = "decoded"
    /\ UNCHANGED <<arg, setRecordsVars>>

\* newrec := fromLibdnsRecord(libdnsrec, id), when decoding gave a record
EncodeBack ==
    /\ pc = "decoded"
    /\ result.err = <<>>
    /\ result' = [libdnsrec |-> result.libdnsrec, err |-> result.err,
                  newrec |-> fromLibdnsRecord(result.libdnsrec, arg.rec.Id)]
    /\ pc' = "reencoded"
    /\ UNCHANGED <<arg, setRecordsVars>>

\* fromLibdnsRecord(rec, id)
Encode ==
    /\ pc = "generic"
    /\ result' = [flat |-> fromLibdnsRecord(arg.rec, arg.id)]
    /\ pc' = "encoded"
    /\ UNCHANGED <<arg, setRecordsVars>>

\* toLibdnsRecord on the flat record fromLibdnsRecord returned
DecodeBack ==
    /\ pc = "encoded"
    /\ result' = [flat |-> result.flat,
                  libdnsrec |-> toLibdnsRecord(result.flat).rec,
                  err |-> toLibdnsRecord(result.flat).err]
    /\ pc' = "redecoded"
    /\ UNCHANGED <<arg, setRecordsVars>>

\* the codec on its own: a flat record to decode or a generic one to encode
InitCodec ==
    /\ \/ pc = "flat" /\ arg \in [rec : FlatPool]
       \/ pc = "generic" /\ arg \in [rec : GenericPool, id : CodecIds]
    /\ result = <<>>
    /\ records = <<>>
    /\ remote = <<>>
    /\ nextId = 1
    /\ p = [OperationRetries |-> 0, InitialBackoff |-> 0, MaxBackoff |-> 0]
    /\ ctxDone = FALSE
    /\ upstreamRecords = <<>>
    /\ oplist = <<>>
    /\ opIdx = 0
    /\ attempt = 0
    /\ backoff = 0
    /\ ret = <<>>
    /\ retErr = <<>>
    /\ retFetchErr = FALSE
    /\ calls = <<>>
    /\ handed = <<>>
    /\ outcome = <<>>
    /\ execs = 0
    /\ waited = <<>>
    /\ remained = {}
    /\ method = ""
    /\ matchIdx = 0
    /\ lastErr = <<>>

NextCodec ==
    \/ Decode
    \/ EncodeBack
    \/ Encode
    \/ DecodeBack

SpecCodec == InitCodec /\ [][NextCodec]_vars

\* one AppendRecords or DeleteRecords call on a zone nobody else changes
InitCalls ==
    /\ \/ /\ method = "AppendRecords"
          /\ records \in SeqsUpTo(AppendPool, MaxDesired)
          /\ remote \in {z \in CallZones : Len(z) <= 1}
          /\ pc = "loop"
          /\ opIdx = 1
       \/ /\ method = "DeleteRecords"
          /\ records \in SeqsUpTo(TargetPool, MaxDesired)
          /\ remote \in CallZones
          /\ pc = "start"
          /\ opIdx = 0
    /\ nextId = MaxRemote + 1
    /\ p \in CallProviders
    /\ ctxDone = FALSE
    /\ upstreamRecords = <<>>
    /\ oplist = <<>>
    /\ attempt = 0
    /\ backoff = 0
    /\ ret = <<>>
    /\ retErr = <<>>
    /\ retFetchErr = FALSE
    /\ calls = <<>>
    /\ handed = <<>>
    /\ outcome = <<>>
    /\ execs = 0
    /\ waited = <<>>
    /\ remained = {}
    /\ matchIdx = 0
    /\ lastErr = <<>>
    /\ arg = <<>>
    /\ result = <<>>

NextCalls ==
    \/ AppendStart
    \/ AppendReturn
    \/ DeleteFetchOk
    \/ DeleteFetchFail
    \/ DeleteNextTarget
    \/ DeleteReturn
    \/ DeleteGroupDone
    \/ DeleteDecodeError
    \/ DeleteSkip
    \/ DeleteStart
    \/ AttemptCancelled
    \/ AttemptProceed
    \/ CallOk
    \/ CallFail
    \/ CallFailLast
    \/ BackoffCancelled
    \/ BackoffElapsed
    \/ CancelCall

SpecCalls == InitCalls /\ [][NextCalls]_vars

\* one call of SetRecords, AppendRecords or DeleteRecords with a short record
\* list; arg keeps the zone as the call found it
InitMethods ==
    /\ \/ /\ method = "SetRecords"
          /\ records \in SeqsUpTo(SetPool, MaxShort)
          /\ remote \in Zones
          /\ pc = "start"
          /\ opIdx = 0
       \/ /\ method = "AppendRecords"
          /\ records \in SeqsUpTo(AppendPool, MaxShort)
          /\ remote \in {z \in CallZones : Len(z) <= 1}
          /\ pc = "loop"
          /\ opIdx = 1
       \/ /\ method = "DeleteRecords"
          /\ records \in SeqsUpTo(TargetPool, MaxShort)
          /\ remote \in CallZones
          /\ pc = "start"
          /\ opIdx = 0
    /\ arg = [zone |-> remote]
    /\ nextId = MaxRemote + 1
    /\ p \in CallProviders
    /\ ctxDone = FALSE
    /\ upstreamRecords = <<>>
    /\ oplist = <<>>
    /\ attempt = 0
    /\ backoff = 0
    /\ ret = <<>>
    /\ retErr = <<>>
    /\ retFetchErr = FALSE
    /\ calls = <<>>
    /\ handed = <<>>
    /\ outcome = <<>>
    /\ execs = 0
    /\ waited = <<>>
    /\ remained = {}
    /\ matchIdx = 0
    /\ lastErr = <<>>
    /\ result = <<>>

NextMethods ==
    \/ method = "SetRecords" /\ FetchOk
    \/ method = "SetRecords" /\ FetchFail
    \/ method = "SetRecords" /\ Reconcile
    \/ method = "SetRecords" /\ processOperation
    \/ method = "SetRecords" /\ Return
    \/ method = "SetRecords" /\ RetryCancelled
    \/ method = "SetRecords" /\ RetryProceed
    \/ method = "SetRecords" /\ OperationOk
    \/ method = "SetRecords" /\ OperationFail
    \/ method = "SetRecords" /\ OperationFailLast
    \/ method = "SetRecords" /\ WaitCancelled
    \/ method = "SetRecords" /\ WaitElapsed
    \/ method = "SetRecords" /\ Cancel
    \/ method # "SetRecords" /\ AppendStart
    \/ method # "SetRecords" /\ AppendReturn
    \/ method # "SetRecords" /\ DeleteFetchOk
    \/ method # "SetRecords" /\ DeleteFetchFail
    \/ method # "SetRecords" /\ DeleteNextTarget
    \/ method # "SetRecords" /\ DeleteReturn
    \/ method # "SetRecords" /\ DeleteGroupDone
    \/ method # "SetRecords" /\ DeleteDecodeError
    \/ method # "SetRecords" /\ DeleteSkip
    \/ method # "SetRecords" /\ DeleteStart
    \/ method # "SetRecords" /\ AttemptCancelled
    \/ method # "SetRecords" /\ AttemptProceed
    \/ method # "SetRecords" /\ CallOk
    \/ method # "SetRecords" /\ CallFail
    \/ method # "SetRecords" /\ CallFailLast
    \/ method # "SetRecords" /\ BackoffCancelled
    \/ method # "SetRecords" /\ BackoffElapsed
    \/ method # "SetRecords" /\ CancelCall

SpecMethods == InitMethods /\ [][NextMethods]_vars

\* the statements a method can be at
Labels ==
    {"start", "reconcile", "loop", "target", "match", "retry", "operation",
     "wait", "done"}

\* the method leaves the statement it is at: every step of NextMethods but a
\* cancellation of ctx and the skip of a record that does not match is one
MovesOn ==
    /\ pc # "done"
    /\ pc' \in Labels \ {pc}

\* the remote always answers, the timer of a wait always fires and the
\* goroutine of the method is scheduled until it returns: a method that has
\* not returned does not stay at one statement for ever
FairMethods == SpecMethods /\ WF_pc(MovesOn)

----------------------------------------------------------------------------
(* Two SetRecords calls for one zone *)

\* the two calls; each has its own locals (pc, upstreamRecords, oplist, opIdx,
\* ret, outcome hold one value per call), the zone (remote, nextId) is the
\* only thing they share, and calls is the history of the remote calls of
\* both, each entry naming the call that made it
Callers == {1, 2}

\* what no step of the two calls changes
sharedUnchanged ==
    UNCHANGED <<records, p, ctxDone, attempt, backoff, retErr, retFetchErr,
                handed, execs, waited, remained, arg, result, method,
                matchIdx, lastErr>>

\* upstreamRecords, err := c.GetClouDNSRecords(ctx, zone) of call c, err nil
FetchBy(c) ==
    /\ pc[c] = "start"
    /\ upstreamRecords' = [upstreamRecords EXCEPT ![c] = remote]
    /\ calls' = Append(calls, [by |-> c, call |-> "GetClouDNSRecords"])
    /\ pc' = [pc EXCEPT ![c] = "reconcile"]
    /\ UNCHANGED <<remote, nextId, oplist, opIdx, ret, outcome>>
    /\ sharedUnchanged

\* a variant in which call c reconciles against the zone as it is now, not
\* against the listing it made
ReconcileByCurrentZone(c) ==
    /\ pc[c] = "reconcile"
    /\ LET existing == clouDNSRecordsToMap(remote)
           rrsets == libdnsRecordsToMap(records)
       IN  \E keyOrder \in Orders(DOMAIN rrsets) :
           \E delOrder \in Orders(deletedSet(rrsets, existing)) :
               oplist' = [oplist EXCEPT ![c] =
                   makeOperationList(rrsets, existing, keyOrder, delOrder)]
    /\ opIdx' = [opIdx EXCEPT ![c] = 1]
    /\ pc' = [pc EXCEPT ![c] = "loop"]
    /\ UNCHANGED <<remote, nextId, upstreamRecords, ret, outcome, calls>>
    /\ sharedUnchanged

\* existing, rrsets and oplist of call c, from its own listing
ReconcileBy(c) ==
    /\ pc[c] = "reconcile"
    /\ LET existing == clouDNSRecordsToMap(upstreamRecords[c])
           rrsets == libdnsRecordsToMap(records)
       IN  \E keyOrder \in Orders(DOMAIN rrsets) :
           \E delOrder \in Orders(deletedSet(rrsets, existing)) :
               oplist' = [oplist EXCEPT ![c] =
                   makeOperationList(rrsets, existing, keyOrder, delOrder)]
    /\ opIdx' = [opIdx EXCEPT ![c] = 1]
    /\ pc' = [pc EXCEPT ![c] = "loop"]
    /\ UNCHANGED <<remote, nextId, upstreamRecords, ret, outcome, calls>>
    /\ sharedUnchanged

\* one round of the range loop of call c is over
roundBy(c, rec, how) ==
    /\ ret' = [ret EXCEPT ![c] = ret[c] \o rec]
    /\ outcome' = [outcome EXCEPT ![c] = Append(outcome[c], how)]
    /\ opIdx' = [opIdx EXCEPT ![c] = opIdx[c] + 1]
    /\ calls' = Append(calls, [by |-> c,
                               call |-> primitive(oplist[c][opIdx[c]].op)])
    /\ UNCHANGED <<pc, upstreamRecords, oplist>>
    /\ sharedUnchanged

\* processOperation of call c returns a nil error: the primitive of its
\* current operation has acted on the zone as it is now
OperationOkBy(c) ==
    /\ pc[c] = "loop"
    /\ opIdx[c] <= Len(oplist[c])
    /\ LET op == oplist[c][opIdx[c]]
       IN  \/ /\ op.op = addRecord
              /\ remote' = Append(remote, AddRecord(op.record))
              /\ nextId' = nextId + 1
              /\ roundBy(c, <<AddRecord(op.record)>>, "ok")
           \/ /\ op.op = modifyRecord
              /\ \E i \in DOMAIN remote : remote[i].Id = op.record.Id
              /\ remote' = UpdateRecord(remote, op.record)
              /\ nextId' = nextId
              /\ roundBy(c, <<op.record>>, "ok")
           \/ /\ op.op = deleteRecord
              /\ remote' = DeleteRecord(remote, op.record.Id)
              /\ nextId' = nextId
              /\ roundBy(c, <<>>, "ok")

\* processOperation of call c returns an error: every attempt of
\* RetryWithBackoff has failed and the zone is as it was
OperationFailedBy(c) ==
    /\ pc[c] = "loop"
    /\ opIdx[c] <= Len(oplist[c])
    /\ roundBy(c, <<>>, "failed")
    /\ UNCHANGED <<remote, nextId>>

\* return ret, retErr of call c
ReturnBy(c) ==
    /\ pc[c] = "loop"
    /\ opIdx[c] > Len(oplist[c])
    /\ pc' = [pc EXCEPT ![c] = "done"]
    /\ UNCHANGED <<remote, nextId, upstreamRecords, oplist, opIdx, ret,
                   outcome, calls>>
    /\ sharedUnchanged

\* two calls of SetRecords with the same records for the same zone; the
\* zone and the records together count at most MaxRemote records
InitConcurrent ==
    /\ method = "SetRecords"
    /\ records \in SeqsUpTo(SetPool, MaxShort)
    /\ remote \in {z \in Zones : Len(z) + Len(records) <= MaxRemote}
    /\ arg = [zone |-> remote]
    /\ nextId = MaxRemote + 1
    /\ p \in {q \in Providers : q.OperationRetries = 0}
    /\ ctxDone = FALSE
    /\ pc = [c \in Callers |-> "start"]
    /\ upstreamRecords = [c \in Callers |-> <<>>]
    /\ oplist = [c \in Callers |-> <<>>]
    /\ opIdx = [c \in Callers |-> 0]
    /\ ret = [c \in Callers |-> <<>>]
    /\ outcome = [c \in Callers |-> <<>>]
    /\ calls = <<>>
    /\ attempt = 0
    /\ backoff = 0
    /\ retErr = <<>>
    /\ retFetchErr = FALSE
    /\ handed = <<>>
    /\ execs = 0
    /\ waited = <<>>
    /\ remained = {}
    /\ matchIdx = 0
    /\ lastErr = <<>>
    /\ result = <<>>

NextConcurrent ==
    \/ \E c \in Callers : FetchBy(c)
    \/ \E c \in Callers : ReconcileBy(c)
    \/ \E c \in Callers : OperationOkBy(c)
    \/ \E c \in Callers : OperationFailedBy(c)
    \/ \E c \in Callers : ReturnBy(c)

SpecConcurrent == InitConcurrent /\ [][NextConcurrent]_vars

\* existing := clouDNSRecordsToMap(upstreamRecords)
GroupFlat ==
    /\ pc = "flat list"
    /\ result' = [groups |-> clouDNSRecordsToMap(arg.recs)]
    /\ pc' = "flat groups"
    /\ UNCHANGED <<arg, setRecordsVars>>

\* rrsets := libdnsRecordsToMap(records)
GroupGeneric ==
    /\ pc = "generic list"
    /\ result' = [groups |-> libdnsRecordsToMap(arg.recs)]
    /\ pc' = "generic groups"
    /\ UNCHANGED <<arg, setRecordsVars>>

\* the grouping on its own, and makeOperationList on short listings of two
\* groups
InitRRSet ==
    /\ \/ /\ pc = "flat list"
          /\ arg \in [recs : SeqsUpTo(GroupFlatPool, MaxGroup)]
          /\ records = <<>>
          /\ upstreamRecords = <<>>
       \/ /\ pc = "generic list"
          /\ arg \in [recs : SeqsUpTo(GroupGenericPool, MaxGroup)]
          /\ records = <<>>
          /\ upstreamRecords = <<>>
       \/ /\ pc = "reconcile"
          /\ arg = <<>>
          /\ records \in DiffDesired
          /\ upstreamRecords \in DiffExisting
    /\ result = <<>>
    /\ remote = <<>>
    /\ nextId = 1
    /\ p = [OperationRetries |-> 0, InitialBackoff |-> 0, MaxBackoff |-> 0]
    /\ ctxDone = FALSE
    /\ oplist = <<>>
    /\ opIdx = 0
    /\ attempt = 0
    /\ backoff = 0
    /\ ret = <<>>
    /\ retErr = <<>>
    /\ retFetchErr = FALSE
    /\ calls = <<>>
    /\ handed = <<>>
    /\ outcome = <<>>
    /\ execs = 0
    /\ waited = <<>>
    /\ remained = {}
    /\ method = ""
    /\ matchIdx = 0
    /\ lastErr = <<>>

NextRRSet ==
    \/ GroupFlat
    \/ GroupGeneric
    \/ Reconcile

SpecRRSet == InitRRSet /\ [][NextRRSet]_vars

\* makeOperationList on a listing and the records GetRecords decoded from it
InitSame ==
    /\ upstreamRecords \in SameZones
    /\ records = [i \in DOMAIN upstreamRecords |->
                     toLibdnsRecord(upstreamRecords[i]).rec]
    /\ pc = "reconcile"
    /\ arg = <<>>
    /\ result = <<>>
    /\ remote = <<>>
    /\ nextId = 1
    /\ p = [OperationRetries |-> 0, InitialBackoff |-> 0, MaxBackoff |-> 0]
    /\ ctxDone = FALSE
    /\ oplist = <<>>
    /\ opIdx = 0
    /\ attempt = 0
    /\ backoff = 0
    /\ ret = <<>>
    /\ retErr = <<>>
    /\ retFetchErr = FALSE
    /\ calls = <<>>
    /\ handed = <<>>
    /\ outcome = <<>>
    /\ execs = 0
    /\ waited = <<>>
    /\ remained = {}
    /\ method = "SetRecords"
    /\ matchIdx = 0
    /\ lastErr = <<>>

NextSame == Reconcile

SpecSame == InitSame /\ [][NextSame]_vars

\* matchDeleteTarget(target, matched)
Match ==
    /\ pc = "candidate"
    /\ result' = [ok |-> matchDeleteTarget(arg.target, arg.matched)]
    /\ pc' = "matched"
    /\ UNCHANGED <<arg, setRecordsVars>>

\* matchDeleteTarget on its own
InitMatch ==
    /\ pc = "candidate"
    /\ arg \in [target : MatchTargets, matched : MatchCandidates]
    /\ result = <<>>
    /\ records = <<>>
    /\ remote = <<>>
    /\ nextId = 1
    /\ p = [OperationRetries |-> 0, InitialBackoff |-> 0, MaxBackoff |-> 0]
    /\ ctxDone = FALSE
    /\ upstreamRecords = <<>>
    /\ oplist = <<>>
    /\ opIdx = 0
    /\ attempt = 0
    /\ backoff = 0
    /\ ret = <<>>
    /\ retErr = <<>>
    /\ retFetchErr = FALSE
    /\ calls = <<>>
    /\ handed = <<>>
    /\ outcome = <<>>
    /\ execs = 0
    /\ waited = <<>>
    /\ remained = {}
    /\ method = ""
    /\ matchIdx = 0
    /\ lastErr = <<>>

NextMatch == Match

SpecMatch == InitMatch /\ [][NextMatch]_vars

\* ttlRounder applied to two durations, and again to its own result
Quantize ==
    /\ pc = "ttl"
    /\ result' = [q1 |-> ttlRounder(arg.t1), q2 |-> ttlRounder(arg.t2),
                  again |-> ttlRounder(ttlRounder(arg.t1) * Second)]
    /\ pc' = "quantized"
    /\ UNCHANGED <<arg, setRecordsVars>>

\* ttlRounder on its own
InitTtl ==
    /\ pc = "ttl"
    /\ arg \in [t1 : TtlPool, t2 : TtlPool]
    /\ result = <<>>
    /\ records = <<>>
    /\ remote = <<>>
    /\ nextId = 1
    /\ p = [OperationRetries |-> 0, InitialBackoff |-> 0, MaxBackoff |-> 0]
    /\ ctxDone = FALSE
    /\ upstreamRecords = <<>>
    /\ oplist = <<>>
    /\ opIdx = 0
    /\ attempt = 0
    /\ backoff = 0
    /\ ret = <<>>
    /\ retErr = <<>>
    /\ retFetchErr = FALSE
    /\ calls = <<>>
    /\ handed = <<>>
    /\ outcome = <<>>
    /\ execs = 0
    /\ waited = <<>>
    /\ remained = {}
    /\ method = ""
    /\ matchIdx = 0
    /\ lastErr = <<>>

NextTtl == Quantize

SpecTtl == InitTtl /\ [][NextTtl]_vars

----------------------------------------------------------------------------
(* Properties *)

desiredGroups == libdnsRecordsToMap(records)
existingGroups == clouDNSRecordsToMap(upstreamRecords)
keyOf(rec) == nameAndType(rec.Host, rec.Type)
\* the (name, type) keys of the desired records
desiredKeys ==
    {nameAndType(RRof(r).Name, RRof(r).Type) : r \in Range(records)}
reconciled == pc \notin {"start", "reconcile"} /\ ~retFetchErr

\* the operations of oplist that carry a record of the group nt, in order
OpsOfKey(nt) == SelectSeq(oplist, LAMBDA e : keyOf(e.record) = nt)

\* content equality of two flat records: every field but the identifier
ContentEqual(a, b) ==
    /\ a.Type = b.Type /\ a.Host = b.Host /\ a.Record = b.Record
    /\ a.Ttl = b.Ttl /\ a.CAAFlag = b.CAAFlag /\ a.CAAType = b.CAAType
    /\ a.CAAValue = b.CAAValue /\ a.Priority = b.Priority
    /\ a.Port = b.Port /\ a.Weight = b.Weight

\* C1: in the list makeOperationList returns, every delete is at a smaller
\* index than every add and every modify
C1_DeletesFirst ==
    \A i, j \in DOMAIN oplist :
        (oplist[i].op = deleteRecord
            /\ oplist[j].op \in {addRecord, modifyRecord}) => i < j

\* a returned list that holds a delete, a modify and an add
C1_Witness ==
    /\ reconciled
    /\ \E i, j, k \in DOMAIN oplist :
        /\ oplist[i].op = deleteRecord
        /\ oplist[j].op = modifyRecord
        /\ oplist[k].op = addRecord

\* C8: for a desired key with no existing record, makeOperationList emits
\* one add per desired record of the group, in group order, each with an
\* empty identifier, and nothing else for that key
C8_NewGroupIsAdded ==
    reconciled =>
        \A nt \in DOMAIN desiredGroups :
            Len(Lookup(existingGroups, nt)) = 0 =>
                OpsOfKey(nt) =
                    [i \in 1..Len(desiredGroups[nt]) |->
                        [op |-> addRecord,
                         record |-> [fromLibdnsRecord(desiredGroups[nt][i], <<>>)
                                        EXCEPT !.Id = <<>>]]]

\* a new group of two different desired records was reconciled next to an
\* existing group
C8_Witness ==
    /\ reconciled
    /\ upstreamRecords # <<>>
    /\ \E nt \in DOMAIN desiredGroups :
        /\ Len(Lookup(existingGroups, nt)) = 0
        /\ Len(desiredGroups[nt]) = 2
        /\ desiredGroups[nt][1] # desiredGroups[nt][2]

\* C9: the list makeOperationList returns never holds two deletes that carry
\* the same flat record
C9_DeletesDeduplicated ==
    \A i, j \in DOMAIN oplist :
        (i # j /\ oplist[i].op = deleteRecord /\ oplist[j].op = deleteRecord)
            => oplist[i].record # oplist[j].record

\* the same existing record was marked deleted at two positions and the
\* returned list deletes it
C9_Witness ==
    /\ reconciled
    /\ \E nt \in DOMAIN desiredGroups :
        LET e == Lookup(existingGroups, nt)
            n == Len(desiredGroups[nt])
        IN  \E i, j \in (n + 1)..Len(e) :
                /\ i # j
                /\ e[i] = e[j]
                /\ \E k \in DOMAIN oplist :
                    oplist[k] = operationEntry(deleteRecord, e[i])

\* what C7 expects makeOperationList to emit, apart from deletes, for a group
\* with existing records e and desired records d: a modify for each position
\* held by both whose records are not content-equal, then an add for each
\* desired record beyond the existing ones
ExpectedUpdates(e, d) ==
    LET m == Len(e)
        n == Len(d)
        both == [i \in 1..(IF m < n THEN m ELSE n) |-> i]
        changed ==
            SelectSeq(both, LAMBDA i :
                ~ContentEqual(e[i], fromLibdnsRecord(d[i], e[i].Id)))
    IN  [k \in 1..Len(changed) |->
            operationEntry(modifyRecord,
                fromLibdnsRecord(d[changed[k]], e[changed[k]].Id))]
        \o [k \in 1..(IF n > m THEN n - m ELSE 0) |->
               operationEntry(addRecord, fromLibdnsRecord(d[m + k], <<>>))]

\* C7: for a key with m > 0 existing and n desired records, makeOperationList
\* emits exactly a delete for each existing record at a position beyond n, an
\* add with empty identifier for each desired record at a position beyond m,
\* and a modify (desired content, existing identifier) for each position held
\* by both whose records are not content-equal
C7_PositionalDiff ==
    reconciled =>
        \A nt \in DOMAIN desiredGroups :
            LET e == Lookup(existingGroups, nt)
                d == desiredGroups[nt]
                ops == OpsOfKey(nt)
            IN  Len(e) > 0 =>
                  /\ SelectSeq(ops, LAMBDA o : o.op # deleteRecord)
                        = ExpectedUpdates(e, d)
                  /\ {o.record : o \in {x \in Range(ops) : x.op = deleteRecord}}
                        = {e[i] : i \in (Len(d) + 1)..Len(e)}

\* C10: compareIDlessRecord is true exactly when two flat records agree on
\* every field but the identifier, the CAA value included; so a position
\* whose existing and desired records differ in any such field is modified
C10_CompareAllFields ==
    /\ \A a, b \in Range(upstreamRecords)
                     \cup {fromLibdnsRecord(d, <<>>) : d \in Range(records)} :
          compareIDlessRecord(a, b) <=> ContentEqual(a, b)
    /\ reconciled =>
          \A nt \in DOMAIN desiredGroups :
              LET e == Lookup(existingGroups, nt)
                  d == desiredGroups[nt]
              IN  \A i \in 1..Len(e) :
                      (i <= Len(d)
                          /\ ~ContentEqual(e[i], fromLibdnsRecord(d[i], e[i].Id)))
                      => operationEntry(modifyRecord,
                             fromLibdnsRecord(d[i], e[i].Id)) \in Range(oplist)

\* SetRecords has returned after a successful fetch
returned == pc = "done" /\ ~retFetchErr

\* the indices of the operations whose retry ended as how says
Ended(how) == {i \in DOMAIN outcome : outcome[i] \in how}

\* C2: the operations are applied to the remote one at a time, in the order
\* makeOperationList returned, so no AddRecord or UpdateRecord call is started
\* before every delete of the list has finished
C2_SequentialInOrder ==
    /\ \A k \in DOMAIN calls :
        /\ calls[k].idx \in DOMAIN oplist
        /\ calls[k].call = primitive(oplist[calls[k].idx].op)
        /\ calls[k].record = oplist[calls[k].idx].record
        /\ calls[k].idx <= Len(outcome) + 1
        /\ calls[k].idx = Len(outcome) + 1 => pc \in {"operation", "wait", "retry"}
    /\ \A k, l \in DOMAIN calls : k < l => calls[k].idx < calls[l].idx
    /\ \A k \in DOMAIN calls :
        calls[k].call \in {"AddRecord", "UpdateRecord"} =>
            \A d \in DOMAIN oplist :
                oplist[d].op = deleteRecord =>
                    d < calls[k].idx /\ d <= Len(outcome)

\* a call that started a delete, then a modify, then an add
C2_Witness ==
    /\ returned
    /\ Len(calls) = 3
    /\ calls[2].call = "UpdateRecord"
    /\ \E k, l \in DOMAIN calls :
        /\ k < l
        /\ calls[k].call = "DeleteRecord"
        /\ calls[l].call = "AddRecord"

\* C3: every operation of the list is handed to RetryWithBackoff exactly
\* once, in order, whatever the outcome of the operations before it, and what
\* an operation applied stays applied
C3_ContinueOnError ==
    /\ handed = [i \in 1..Len(handed) |-> i]
    /\ Len(handed) <= Len(oplist)
    /\ returned => Len(handed) = Len(oplist) /\ Len(outcome) = Len(oplist)
    /\ \A i \in Ended({"ok"}) :
        CASE oplist[i].op = deleteRecord ->
                 \A r \in Range(remote) : r.Id # oplist[i].record.Id
          [] oplist[i].op = modifyRecord -> oplist[i].record \in Range(remote)
          [] oplist[i].op = addRecord ->
                 \E r \in Range(remote) :
                     r.Id # <<>> /\ r = [oplist[i].record EXCEPT !.Id = r.Id]

\* an operation failed after its retries and the next one was applied
C3_Witness ==
    /\ returned
    /\ \E i \in DOMAIN outcome :
        /\ i < Len(outcome)
        /\ outcome[i] = "failed"
        /\ outcome[i + 1] = "ok"

\* exactly one operation of the call failed at the remote and the others
\* were applied
OneRemoteFailure ==
    /\ returned
    /\ Cardinality(Ended({"failed"})) = 1
    /\ Ended({"cancelled"}) = {}

\* C4, as claimed: with one remote failure among N operations, SetRecords
\* returns N-1 records and a non-nil error, whatever the operations are
C4_ReturnsAllSuccesses ==
    OneRemoteFailure => Len(ret) = Len(oplist) - 1 /\ retErr # <<>>

\* the operations of oplist that were applied and are not deletes, in order
AppliedUpserts ==
    SelectSeq([i \in DOMAIN oplist |-> i],
              LAMBDA i : i \in Ended({"ok"}) /\ oplist[i].op # deleteRecord)

\* C4, amended: with one remote failure among N operations, SetRecords
\* returns a non-nil error and the records of the adds and modifies that were
\* applied, in order; an applied delete contributes no record
C4_ReturnsAppliedUpserts ==
    OneRemoteFailure =>
        /\ retErr # <<>>
        /\ Len(ret) = Len(AppliedUpserts)
        /\ \A k \in DOMAIN ret :
            LET o == oplist[AppliedUpserts[k]]
            IN  /\ ret[k].Id # <<>>
                /\ ret[k] = [o.record EXCEPT !.Id = ret[k].Id]
                /\ o.op = modifyRecord => ret[k] = o.record
                /\ ret[k] \in Range(remote)

\* one of three operations failed; a delete and an add or modify were applied
C4_Witness ==
    /\ OneRemoteFailure
    /\ Len(oplist) = 3
    /\ \E i, j \in Ended({"ok"}) :
        oplist[i].op = deleteRecord /\ oplist[j].op # deleteRecord

\* C5: the error SetRecords returns is nil exactly when no operation failed,
\* and otherwise joins the error of every operation that failed
C5_AggregatedError ==
    returned =>
        /\ retErr = <<>> <=> Ended({"failed", "cancelled"}) = {}
        /\ [k \in DOMAIN retErr |-> retErr[k].op] =
              SelectSeq([i \in DOMAIN outcome |-> i],
                        LAMBDA i : outcome[i] # "ok")

\* two operations failed, with an applied one after the first failure
C5_Witness ==
    /\ returned
    /\ \E i, j, k \in DOMAIN outcome :
        /\ i < j /\ j < k
        /\ outcome[i] = "failed" /\ outcome[j] = "ok" /\ outcome[k] = "failed"

\* C6: every operation of the list carries a record of a desired group, and
\* the remote records of the groups the desired records do not mention stay
\* as they were fetched
C6_UntouchedGroups ==
    /\ \A i \in DOMAIN oplist : keyOf(oplist[i].record) \in desiredKeys
    /\ (pc # "start" /\ ~retFetchErr) =>
          {r \in Range(remote) : keyOf(r) \notin desiredKeys}
              = {r \in Range(upstreamRecords) : keyOf(r) \notin desiredKeys}

\* a call that deleted or modified records next to a group it did not mention
C6_Witness ==
    /\ returned
    /\ \E r \in Range(upstreamRecords) : keyOf(r) \notin desiredKeys
    /\ \E i \in Ended({"ok"}) : oplist[i].op # addRecord

\* the contents of the flat records of recs that belong to the group nt, each
\* with the number of times it occurs
contentsOf(recs, nt) ==
    LET blank(r) == [r EXCEPT !.Id = <<>>]
        group == {i \in DOMAIN recs : keyOf(recs[i]) = nt}
    IN  [c \in {blank(recs[i]) : i \in group} |->
            Cardinality({i \in group : blank(recs[i]) = c})]

\* the desired records as fromLibdnsRecord encodes them, without identifier
encodedDesired == [i \in DOMAIN records |-> fromLibdnsRecord(records[i], <<>>)]

\* the call returned and every operation was applied
AllApplied == returned /\ Ended({"failed", "cancelled"}) = {}

\* C11: after a SetRecords call without remote failure, the remote records of
\* every desired (name, type) group are, as a multiset of contents, the
\* encoded desired records of the group; and when the only record of a group
\* is replaced by one with different data, one modify is applied, the group
\* holds one record and the call returns one record equal to the desired one
C11_DesiredGroupsApplied ==
    AllApplied =>
        /\ \A nt \in desiredKeys :
              contentsOf(remote, nt) = contentsOf(encodedDesired, nt)
        /\ (Len(records) = 1 /\ Len(Lookup(existingGroups, keyOf(encodedDesired[1]))) = 1
                /\ Lookup(existingGroups, keyOf(encodedDesired[1]))[1].Record
                       # encodedDesired[1].Record) =>
              /\ Len(oplist) = 1
              /\ oplist[1].op = modifyRecord
              /\ Cardinality({i \in DOMAIN remote :
                      keyOf(remote[i]) = keyOf(encodedDesired[1])}) = 1
              /\ Len(ret) = 1
              /\ ContentEqual(ret[1], encodedDesired[1])

\* the retry of an operation has returned (and no other has started)
retryReturned == pc \in {"loop", "done"} /\ outcome # <<>>

\* C18: RetryWithBackoff executes the operation at most maxRetries times, and
\* when an execution succeeds it returns nil at once: that execution is the
\* last one and every execution before it was followed by one wait
C18_AtMostMaxAttempts ==
    /\ execs <= getOperationRetries
    /\ Len(waited) <= execs
    /\ (retryReturned /\ outcome[Len(outcome)] = "ok") =>
          /\ execs >= 1
          /\ Len(waited) = execs - 1
          /\ attempt = execs - 1

\* an operation succeeded on the last attempt the default configuration
\* allows
C18_Witness ==
    /\ retryReturned
    /\ outcome[Len(outcome)] = "ok"
    /\ execs = DefaultOperationRetries
    /\ p.OperationRetries = 0

\* C19: when ctx is done at the top of an attempt, the first included,
\* RetryWithBackoff does not execute the operation and returns ctx.Err()
C19_CancelledBeforeAttempt ==
    [][(pc = "retry" /\ ctxDone) =>
          /\ execs' = execs
          /\ calls' = calls
          /\ remote' = remote
          /\ pc' = "loop"
          /\ outcome' = Append(outcome, "cancelled")
          /\ retErr' = Join(retErr, ctxErr)]_vars

\* a retry that started when ctx was already done returned without an
\* execution
C19_Witness ==
    /\ retryReturned
    /\ Len(outcome) >= 2
    /\ outcome[Len(outcome)] = "cancelled"
    /\ execs = 0
    /\ retErr[Len(retErr)].err = "context canceled"

\* C20: when ctx is done during the wait between two attempts, no further
\* execution starts and RetryWithBackoff returns ctx.Err(), not nil and not
\* the error of the exhausted attempts; in SetRecords, once ctx is done no
\* remote call is started for the operations that had not been started, each
\* of them ends cancelled, and the error returned is not nil when there was
\* such an operation
C20_CancellationSurfaces ==
    /\ [](ctxDone =>
            /\ remained \subseteq DOMAIN oplist
            /\ \A i \in remained \cap DOMAIN outcome : outcome[i] = "cancelled"
            /\ returned =>
                  /\ \A i \in remained :
                        \E k \in DOMAIN retErr :
                            retErr[k] = [op |-> i, err |-> "context canceled"]
                  /\ remained # {} => retErr # <<>>)
    /\ [][(ctxDone /\ pc \in {"retry", "wait", "loop"}) =>
            /\ execs' <= execs
            /\ calls' = calls
            /\ remote' = remote
            /\ pc' # "operation"
            /\ pc = "wait" =>
                  \/ outcome' = Append(outcome, "cancelled")
                  \/ pc' = "retry" /\ outcome' = outcome]_vars

\* ctx was done while the first of two operations waited for its second
\* attempt: both ended cancelled
C20_Witness ==
    /\ returned
    /\ ctxDone
    /\ remained = {1, 2}
    /\ calls # <<>>
    /\ outcome = <<"cancelled", "cancelled">>
    /\ retErr # <<>>

----------------------------------------------------------------------------
(* Properties of the codec *)

\* the TTL values the remote accepts, in seconds
AcceptedTTLs ==
    {60, 300, 900, 1800, 3600, 21600, 43200, 86400, 172800, 259200, 604800,
     1209600, 2592000}

\* the positions of the dots of a host
dotsOf(h) == {i \in DOMAIN h : h[i] = "."}
\* the smallest member of a non-empty set of numbers
least(S) == CHOOSE x \in S : \A y \in S : x <= y
\* a label without its leading underscore, if it has one
withoutUnderscore(x) == IF x # <<>> /\ x[1] = "_" THEN Tail(x) ELSE x

\* a host of the form _service._transport.name
IsSrvHost(h) ==
    /\ Cardinality(dotsOf(h)) >= 2
    /\ h[1] = "_"
    /\ h[least(dotsOf(h)) + 1] = "_"

\* a flat record in canonical form: its TTL is the decimal form of an
\* accepted value, its data is in the textual form its type asks for, and
\* only the fields of its type are set
CanonicalFlat(f) ==
    LET noCAA == f.CAAFlag = 0 /\ f.CAAType = "" /\ f.CAAValue = ""
        noSRV == f.Port = 0 /\ f.Weight = 0
        noMX == f.Priority = 0
        ip == ParseAddr(f.Record)
    IN  /\ \E v \in AcceptedTTLs : f.Ttl = Itoa(v)
        /\ f.Failover = "" /\ f.Status = 0
        /\ CASE f.Type = "A" ->
                    /\ ip.ok /\ ~ip.addr.is6 /\ ip.addr.text = f.Record
                    /\ noCAA /\ noSRV /\ noMX
             [] f.Type = "AAAA" ->
                    /\ ip.ok /\ ip.addr.is6 /\ ip.addr.text = f.Record
                    /\ noCAA /\ noSRV /\ noMX
             [] f.Type = "CAA" -> f.Record = "" /\ noSRV /\ noMX
             [] f.Type = "MX" -> noCAA /\ noSRV
             [] f.Type = "SRV" -> IsSrvHost(f.Host) /\ noCAA
             [] OTHER -> noCAA /\ noSRV /\ noMX

\* C12: for every flat record in canonical form of type A, AAAA, CAA, CNAME,
\* MX, NS, SRV or of an unsupported type, toLibdnsRecord succeeds and
\* fromLibdnsRecord of its result and the record's identifier gives the flat
\* record back, field for field
C12_FlatRoundTrip ==
    (pc \in {"decoded", "reencoded"} /\ CanonicalFlat(arg.rec)
        /\ arg.rec.Type # "TXT") =>
            /\ result.err = <<>>
            /\ pc = "reencoded" => result.newrec = arg.rec

\* an SRV record with an identifier, a priority, a weight and a port went
\* through toLibdnsRecord and back
C12_Witness ==
    /\ pc = "reencoded"
    /\ CanonicalFlat(arg.rec)
    /\ arg.rec.Type = "SRV"
    /\ arg.rec.Id # <<>>
    /\ arg.rec.Port = 80

\* a generic record in canonical form: its TTL is an accepted value, an
\* address is a valid one, the labels of an SRV record hold no dot and a
\* libdns.RR is of a type that has no typed record
CanonicalGeneric(g) ==
    /\ \E v \in AcceptedTTLs : g.TTL = v * Second
    /\ implOf(g) = "Address" => g.IP.valid
    /\ implOf(g) = "SRV" => dotsOf(g.Service) = {} /\ dotsOf(g.Transport) = {}
    /\ implOf(g) = "RR" =>
          g.Type \notin {"A", "AAAA", "CAA", "CNAME", "MX", "NS", "SRV", "TXT"}

\* C13, as claimed: for every generic record whose TTL is an accepted value,
\* of each of the 8 implementations, toLibdnsRecord of fromLibdnsRecord's
\* result succeeds and gives the generic record back
C13_AcceptedTtlRoundTrip ==
    (pc = "redecoded" /\ \E v \in AcceptedTTLs : arg.rec.TTL = v * Second) =>
        result.err = <<>> /\ result.libdnsrec = arg.rec

\* C13, amended: for every generic record in canonical form, of each of the 8
\* implementations, and every identifier, toLibdnsRecord of
\* fromLibdnsRecord's result succeeds and gives the generic record back
C13_GenericRoundTrip ==
    (pc = "redecoded" /\ CanonicalGeneric(arg.rec)) =>
        result.err = <<>> /\ result.libdnsrec = arg.rec

\* an SRV record went through fromLibdnsRecord, with an identifier, and back
C13_Witness ==
    /\ pc = "redecoded"
    /\ CanonicalGeneric(arg.rec)
    /\ implOf(arg.rec) = "SRV"
    /\ arg.rec.Name = <<"n", ".", "m">>
    /\ arg.id # <<>>

\* C16: toLibdnsRecord accepts a flat record's TTL only if it parses as a
\* non-negative integer; for any other TTL string it returns the invalid-TTL
\* error that names the string, whatever the type of the record
C16_TtlNonNegative ==
    pc = "decoded" =>
        LET ttl == Atoi(arg.rec.Ttl)
            nonNegative == ttl.ok /\ ttl.n >= 0
        IN  /\ result.err = <<>> => nonNegative
            /\ ~nonNegative => result.err = InvalidTTL(arg.rec.Ttl)

\* C17: toLibdnsRecord splits the host of an SRV record at its first two dots
\* into service, transport and name, without the leading underscore of
\* service and transport; a host of fewer than three components gives the
\* error that names the host and the number of components; fromLibdnsRecord
\* composes the host as _service._transport.name
C17_SrvHost ==
    /\ (pc = "decoded" /\ arg.rec.Type = "SRV" /\ Atoi(arg.rec.Ttl).ok) =>
          LET h == arg.rec.Host
              dots == dotsOf(h)
          IN  IF Cardinality(dots) < 2
              THEN result.err = NotEnoughComponents(h, Cardinality(dots) + 1)
              ELSE LET d1 == least(dots)
                       d2 == least(dots \ {d1})
                   IN  /\ result.err = <<>>
                       /\ implOf(result.libdnsrec) = "SRV"
                       /\ result.libdnsrec.Service =
                              withoutUnderscore(SubSeq(h, 1, d1 - 1))
                       /\ result.libdnsrec.Transport =
                              withoutUnderscore(SubSeq(h, d1 + 1, d2 - 1))
                       /\ result.libdnsrec.Name = SubSeq(h, d2 + 1, Len(h))
    /\ (pc = "encoded" /\ implOf(arg.rec) = "SRV") =>
          result.flat.Host =
              <<"_">> \o arg.rec.Service \o <<".", "_">> \o arg.rec.Transport
                  \o <<".">> \o arg.rec.Name

\* an SRV host of four components was decoded: the name keeps its dot
C17_Witness ==
    /\ pc = "decoded"
    /\ arg.rec.Type = "SRV"
    /\ Cardinality(dotsOf(arg.rec.Host)) = 3
    /\ result.err = <<>>
    /\ result.libdnsrec.Name = <<"n", ".", "m">>

----------------------------------------------------------------------------
(* Properties of ttlRounder *)

\* C14: for a TTL of t whole seconds ttlRounder returns the smallest accepted
\* value that is at least t when t is at most 2592000, and 2592000 for every
\* larger t: the result is always an accepted value, 60 for every t up to 60
\* and 2592000 for every t above 1209600
C14_QuantizeUp ==
    pc = "quantized" =>
        /\ result.q1 \in AcceptedTTLs
        /\ arg.t1 % Second = 0 =>
            LET t == arg.t1 \div Second
            IN  /\ t <= 2592000 =>
                    /\ result.q1 >= t
                    /\ \A m \in AcceptedTTLs : m >= t => result.q1 <= m
                /\ t > 2592000 => result.q1 = 2592000
                /\ t <= 60 => result.q1 = 60
                /\ t > 1209600 => result.q1 = 2592000

\* a TTL one second above the largest value of the loop was rounded
C14_Witness ==
    /\ pc = "quantized"
    /\ arg.t1 = 1209601 * Second
    /\ result.q1 = 2592000

\* C15: ttlRounder is idempotent and monotonic
C15_IdempotentMonotonic ==
    pc = "quantized" =>
        /\ result.again = result.q1
        /\ arg.t1 <= arg.t2 => result.q1 <= result.q2

\* two TTLs in order were rounded to different values
C15_Witness ==
    /\ pc = "quantized"
    /\ arg.t1 < arg.t2
    /\ result.q1 < result.q2
    /\ result.again = result.q1

----------------------------------------------------------------------------
(* Properties of matchDeleteTarget *)

\* whether the target leaves the field open or gives the candidate's value
openOrEqual(given, zero, found) == given = zero \/ given = found

\* C24: matchDeleteTarget is true exactly when each of type, TTL and data of
\* the target is zero or equals the candidate's, the TTL compared as given;
\* the name has no part in it
C24_WildcardMatch ==
    pc = "matched" =>
        LET t == RRof(arg.target)
            m == RRof(arg.matched)
        IN  /\ result.ok <=>
                   /\ openOrEqual(t.Type, "", m.Type)
                   /\ openOrEqual(t.TTL, 0, m.TTL)
                   /\ openOrEqual(t.Data, "", m.Data)
            /\ \A n \in {HostA, HostB} :
                   matchDeleteTarget([t EXCEPT !.Name = n], arg.matched)
                       = result.ok

\* a target whose TTL would be stored as the candidate's is refused, and a
\* target of another name is accepted
C24_Witness ==
    /\ pc = "matched"
    /\ RRof(arg.target).TTL = 61 * Second
    /\ RRof(arg.matched).TTL = 300 * Second
    /\ RRof(arg.target).Type = RRof(arg.matched).Type
    /\ RRof(arg.target).Name # RRof(arg.matched).Name
    /\ RRof(arg.target).Data = RRof(arg.matched).Data
    /\ ~result.ok

----------------------------------------------------------------------------
(* Properties of AppendRecords and DeleteRecords *)

\* the method call has returned
callReturned == pc = "done"

\* the last RetryWithBackoff of the call made every attempt it was allowed
\* and each failed
retryExhausted ==
    /\ callReturned
    /\ execs = getOperationRetries
    /\ Len(calls) >= execs
    /\ \A k \in Len(calls) - execs + 1 .. Len(calls) : ~calls[k].ok

\* C21: when all maxAttempts executions of the operation fail, RetryWithBackoff
\* returns an error that wraps the failure of the last execution and states
\* maxAttempts
C21_ExhaustedWrapsLast ==
    retryExhausted =>
        /\ retErr # <<>>
        /\ retErr[1].wraps =
               <<[msg |-> "operation failed after attempts",
                  attempts |-> getOperationRetries,
                  wraps |-> failure(Len(calls))]>>

\* two attempts of the second operation failed, after a first operation that
\* succeeded, and nobody cancelled
C21_Witness ==
    /\ retryExhausted
    /\ ~ctxDone
    /\ getOperationRetries = 2
    /\ Len(calls) >= 3
    /\ retErr[1].wraps[1].wraps = failure(Len(calls))


\* C22: every remote call goes through RetryWithBackoff, the listing that
\* DeleteRecords starts with included: when nobody cancelled, a call whose
\* failure the method reports has failed getOperationRetries times in a row
C22_EveryCallRetried ==
    (callReturned /\ ~ctxDone /\ calls # <<>> /\ ~calls[Len(calls)].ok) =>
        LET n == getOperationRetries
        IN  /\ Len(calls) >= n
            /\ \A k \in Len(calls) - n + 1 .. Len(calls) :
                   calls[k] = calls[Len(calls)]


\* whether the listed record r is one the target t asks to delete: it has the
\* target's name and type, and its decoded TTL and data are the target's or
\* the target leaves them open
passes(t, r) ==
    LET q == RRof(t)
        m == RRof(toLibdnsRecord(r).rec)
    IN  /\ r.Host = q.Name
        /\ r.Type = q.Type
        /\ openOrEqual(q.TTL, 0, m.TTL)
        /\ openOrEqual(q.Data, "", m.Data)

RECURSIVE askedFrom(_)
\* the listed records the targets from the i-th on ask to delete, target by
\* target, in the order of the listing
askedFrom(i) ==
    IF i > Len(records) THEN <<>>
    ELSE SelectSeq(upstreamRecords, LAMBDA r : passes(records[i], r))
             \o askedFrom(i + 1)

\* the remote deletes that were started, in order, and those that succeeded
deletesSent == SelectSeq(calls, LAMBDA c : c.call = "DeleteRecord")
deletesDone == SelectSeq(deletesSent, LAMBDA c : c.ok)

\* C23: for each target DeleteRecords sends a delete for every listed record
\* of the target's (name, type) group that passes the filter, not only the
\* first, and for no other record; when it succeeds, it returns the decoded
\* records it deleted
C23_DeletesEveryMatch ==
    method = "DeleteRecords" =>
        /\ \A k \in DOMAIN deletesSent :
               \E i \in DOMAIN records : \E j \in DOMAIN upstreamRecords :
                   /\ upstreamRecords[j].Id = deletesSent[k].record
                   /\ passes(records[i], upstreamRecords[j])
        /\ (callReturned /\ retErr = <<>>) =>
               /\ Len(deletesDone) = Len(askedFrom(1))
               /\ \A k \in DOMAIN deletesDone :
                      deletesDone[k].record = askedFrom(1)[k].Id
               /\ ret = [k \in DOMAIN deletesDone |->
                            toLibdnsRecord(askedFrom(1)[k]).rec]

\* one target deleted both records of its group, which differ in TTL and data
C23_Witness ==
    /\ method = "DeleteRecords"
    /\ callReturned
    /\ retErr = <<>>
    /\ Len(records) = 1
    /\ Len(ret) = 2
    /\ ret[1] # ret[2]
    /\ remote = <<>>


\* C25: DeleteRecords lists the zone anew for each target, so a target is
\* matched against a listing that reflects the deletions made for earlier
\* targets, and no record is deleted at the remote twice in one call
C25_FreshListingPerTarget ==
    method = "DeleteRecords" =>
        /\ (pc = "match" /\ matchIdx = 1) => upstreamRecords = remote
        /\ \A j, k \in DOMAIN deletesDone :
               j # k => deletesDone[j].record # deletesDone[k].record


\* the k-th remote call was the last attempt of a retry that had failed at
\* every attempt
exhaustedAt(k) ==
    /\ k >= getOperationRetries
    /\ \A j \in k - getOperationRetries + 1 .. k : ~calls[j].ok

\* C26: AppendRecords and DeleteRecords stop at the first operation that
\* fails after its retries, DeleteRecords also at the first candidate that
\* does not decode: no remote call follows, the error is returned with an
\* empty list, and what was applied at the remote before stays applied
C26_AbortsOnFirstError ==
    /\ [](\A k \in DOMAIN calls :
              exhaustedAt(k) =>
                  k = Len(calls) /\ callReturned /\ retErr # <<>>)
    /\ []((callReturned /\ retErr # <<>>) => ret = <<>>)
    /\ [][(/\ pc = "match"
           /\ matchIdx <= Len(matchingRecords)
           /\ toLibdnsRecord(matchingRecord).err # <<>>) =>
              /\ pc' = "done"
              /\ ret' = <<>>
              /\ retErr' = toLibdnsRecord(matchingRecord).err
              /\ calls' = calls]_vars
    /\ [][(pc # "done" /\ pc' = "done") => remote' = remote]_vars

\* AppendRecords created its first record, the second failed at every
\* attempt, and the call returned the error with the first record still in
\* the zone
C26_Witness ==
    /\ method = "AppendRecords"
    /\ callReturned
    /\ ~ctxDone
    /\ retErr # <<>>
    /\ ret = <<>>
    /\ Len(records) = 2
    /\ opIdx = 2
    /\ calls[1].ok
    /\ exhaustedAt(Len(calls))
    /\ \E i \in DOMAIN remote : remote[i].Id = Itoa(MaxRemote + 1)


\* the number of remote calls before the k-th that succeeded
okBefore(k) == Cardinality({j \in 1..(k - 1) : calls[j].ok})

\* every remote call of AppendRecords is a create, the attempts for one
\* input record before those for the next, each with an empty identifier,
\* the name and type of its input and an accepted TTL that is no shorter
createsInOrder ==
    \A k \in DOMAIN calls :
        LET i == okBefore(k) + 1
            sent == calls[k].record
        IN  /\ calls[k].call = "AddRecord"
            /\ i <= Len(records)
            /\ sent.Id = <<>>
            /\ sent.Host = RRof(records[i]).Name
            /\ sent.Type = RRof(records[i]).Type
            /\ Atoi(sent.Ttl).ok
            /\ Atoi(sent.Ttl).n \in AcceptedTTLs
            /\ Atoi(sent.Ttl).n * Second >= RRof(records[i]).TTL

\* AppendRecords succeeded: one create succeeded and one record is returned
\* per input
onePerInput ==
    /\ Len(SelectSeq(calls, LAMBDA c : c.ok)) = Len(records)
    /\ Len(ret) = Len(records)
    /\ Len(remote) >= Len(records)

\* C27, as claimed: AppendRecords sends one create per input record, in input
\* order, with empty identifier and quantized TTL, and no other remote call;
\* when all succeed it returns one record per input, in input order, equal to
\* its input in (name, type, TTL, data) when the input's TTL is accepted
C27_AppendEchoesInputs ==
    method = "AppendRecords" =>
        /\ createsInOrder
        /\ (callReturned /\ retErr = <<>>) =>
               /\ onePerInput
               /\ \A i \in DOMAIN records :
                      (\E v \in AcceptedTTLs : records[i].TTL = v * Second) =>
                          RRof(ret[i]) = RRof(records[i])


RECURSIVE picked(_, _, _)
\* the elements of items at the positions of P that are at least i, in the
\* order of items
picked(items, P, i) ==
    IF i > Len(items) THEN <<>>
    ELSE IF i \in P THEN <<items[i]>> \o picked(items, P, i + 1)
    ELSE picked(items, P, i + 1)

RECURSIVE groupedCount(_, _)
\* the number of records the groups of the keys K hold together
groupedCount(groups, K) ==
    IF K = {} THEN 0
    ELSE LET k == CHOOSE x \in K : TRUE
         IN  Len(groups[k]) + groupedCount(groups, K \ {k})

\* groups splits items: no group is empty, a group holds records of its own
\* key only, it holds them in the order they have in items, every record of
\* the key is in it, and the groups together hold as many records as items
partitions(groups, items, isFlat) ==
    LET ownKey(r) == IF isFlat THEN <<r.Host, r.Type>> ELSE <<r.Name, r.Type>>
    IN  /\ \A k \in DOMAIN groups :
            /\ groups[k] # <<>>
            /\ \A j \in DOMAIN groups[k] : ownKey(groups[k][j]) = k
            /\ \E P \in SUBSET DOMAIN items : groups[k] = picked(items, P, 1)
        /\ \A i \in DOMAIN items : ownKey(items[i]) \in DOMAIN groups
        /\ groupedCount(groups, DOMAIN groups) = Len(items)

\* C28: clouDNSRecordsToMap and libdnsRecordsToMap partition their input:
\* every record lands in exactly one group, the group of its own (name, type)
\* key (a generic record as its RR() quadruple), the records of a group keep
\* the order they had in the input, nothing is dropped, deduplicated or
\* sorted, the group lengths add up to the input length, and no group is
\* empty
C28_GroupingPartitions ==
    /\ pc = "flat groups" => partitions(result.groups, arg.recs, TRUE)
    /\ pc = "generic groups" =>
           partitions(result.groups,
                      [i \in DOMAIN arg.recs |-> RRof(arg.recs[i])], FALSE)

\* a flat list with the same record twice and a record of another group
\* between them has been grouped, and a generic list holding a quadruple and a
\* typed record of the same group likewise
C28_Witness ==
    \/ /\ pc = "flat groups"
       /\ Len(arg.recs) = 3
       /\ arg.recs[1] = arg.recs[3]
       /\ arg.recs[1].Host # arg.recs[2].Host
       /\ Len(result.groups[<<arg.recs[1].Host, arg.recs[1].Type>>]) = 2
    \/ /\ pc = "generic groups"
       /\ Len(arg.recs) = 3
       /\ implOf(arg.recs[1]) = "Address"
       /\ implOf(arg.recs[3]) = "RR"
       /\ RRof(arg.recs[1]) = arg.recs[3]
       /\ RRof(arg.recs[2]).Name # arg.recs[3].Name
       /\ Len(result.groups[<<arg.recs[3].Name, "A">>]) = 2


\* the flat record with identifier id and the content of the quadruple rr,
\* whose TTL is a whole number of seconds
flatOf(id, rr) ==
    ApiDnsRecord(id, rr.Type, rr.Name, rr.Data, Itoa(rr.TTL \div Second))

\* the flat record holds what the quadruple asks for
sameContent(flat, rr) == ContentEqual(flat, flatOf(<<>>, rr))

\* C30: the diff is positional. For a listing of one group whose two sides
\* hold the same two contents in opposite orders, the list is one modify per
\* position, each keeping the identifier of its position, and no add or
\* delete. For a record inserted in the middle (existing [a, c], desired
\* [a, b, c]) the list is a modify that gives the record with c's identifier
\* the content of b, and an add of c.
C30_PositionalDiff ==
    pc = "loop" =>
        LET e == upstreamRecords
            d == records
        IN  /\ (/\ Len(e) = 2 /\ Len(d) = 2
                /\ keyOf(e[1]) = keyOf(e[2])
                /\ sameContent(e[1], d[2]) /\ sameContent(e[2], d[1])
                /\ ~sameContent(e[1], d[1]))
                   => oplist =
                        <<operationEntry(modifyRecord, flatOf(e[1].Id, d[1])),
                          operationEntry(modifyRecord, flatOf(e[2].Id, d[2]))>>
            /\ (/\ Len(e) = 2 /\ Len(d) = 3
                /\ keyOf(e[1]) = keyOf(e[2])
                /\ keyOf(flatOf(<<>>, d[2])) = keyOf(e[1])
                /\ sameContent(e[1], d[1]) /\ sameContent(e[2], d[3])
                /\ ~sameContent(e[2], d[2]))
                   => oplist =
                        <<operationEntry(modifyRecord, flatOf(e[2].Id, d[2])),
                          operationEntry(addRecord, flatOf(<<>>, d[3]))>>

\* makeOperationList has run on existing [a, c] and desired [a, b, c] with
\* three different contents, and on existing [a, b] and desired [b, a]
C30_Witness ==
    /\ pc = "loop"
    /\ Len(upstreamRecords) = 2
    /\ keyOf(upstreamRecords[1]) = keyOf(upstreamRecords[2])
    /\ Len(oplist) = 2
    /\ \/ /\ Len(records) = 3
          /\ sameContent(upstreamRecords[1], records[1])
          /\ sameContent(upstreamRecords[2], records[3])
          /\ records[1] # records[2] /\ records[2] # records[3]
          /\ records[1] # records[3]
          /\ oplist[2].op = addRecord
       \/ /\ Len(records) = 2
          /\ sameContent(upstreamRecords[1], records[2])
          /\ sameContent(upstreamRecords[2], records[1])
          /\ records[1] # records[2]
          /\ oplist[2].op = modifyRecord


\* position i of the group nt is held by both sides, and the existing record
\* has the content the desired one asks for
equalAt(nt, i) ==
    /\ i <= Len(Lookup(existingGroups, nt))
    /\ i <= Len(desiredGroups[nt])
    /\ ContentEqual(existingGroups[nt][i],
                    fromLibdnsRecord(desiredGroups[nt][i], <<>>))

\* every desired group equals its existing group position by position
nothingToDo ==
    \A nt \in DOMAIN desiredGroups :
        /\ Len(Lookup(existingGroups, nt)) = Len(desiredGroups[nt])
        /\ \A i \in DOMAIN desiredGroups[nt] : equalAt(nt, i)

\* no two records of the listing carry the same identifier
distinctIds ==
    Cardinality({upstreamRecords[j].Id : j \in DOMAIN upstreamRecords})
        = Len(upstreamRecords)

\* C29: makeOperationList emits no operation for a position whose existing
\* and desired records are content-equal (no operation carries the identifier
\* of such an existing record, when the listing holds that identifier once),
\* and it returns the empty list when every desired group equals its existing
\* group position by position, an empty desired list included, whatever
\* groups exist on the existing side only
C29_EqualPositionsAreNoOps ==
    reconciled =>
        /\ \A nt \in DOMAIN desiredGroups :
               \A i \in DOMAIN desiredGroups[nt] :
                   (equalAt(nt, i) /\ distinctIds)
                       => \A o \in Range(oplist) :
                              o.record.Id # existingGroups[nt][i].Id
        /\ nothingToDo => oplist = <<>>

\* makeOperationList returned the empty list for a desired group of two
\* different records that the existing side holds in the same order, next to
\* an existing group no desired record names
C29_Witness ==
    /\ reconciled
    /\ nothingToDo
    /\ oplist = <<>>
    /\ \E nt \in DOMAIN desiredGroups :
           /\ Len(desiredGroups[nt]) = 2
           /\ desiredGroups[nt][1] # desiredGroups[nt][2]
    /\ DOMAIN existingGroups \ DOMAIN desiredGroups # {}


\* C32: encoding commutes with the extraction of the quadruple: for every
\* generic record g and identifier id, fromLibdnsRecord applied to g.RR(),
\* which is what reconciliation encodes, returns the flat record
\* fromLibdnsRecord(g, id) returns, field by field
C32_EncodingCommutes ==
    pc = "encoded" =>
        fromLibdnsRecord(RRof(arg.rec), arg.id) = result.flat


\* C31: setting a zone to what it already holds is a no-op: for a listing in
\* canonical form and the records decoded from it, makeOperationList returns
\* the empty list, whatever the types of the records
C31_SameZoneIsNoOp ==
    pc = "loop" => oplist = <<>>


\* whether the listed record r is one a target t without a type asks to
\* delete: it has the target's name, it decodes, and its TTL and data are the
\* target's or the target leaves them open
passesAnyType(t, r) ==
    LET q == RRof(t)
        d == toLibdnsRecord(r)
        m == RRof(d.rec)
    IN  /\ q.Type = ""
        /\ r.Host = q.Name
        /\ d.err = <<>>
        /\ openOrEqual(q.TTL, 0, m.TTL)
        /\ openOrEqual(q.Data, "", m.Data)

\* C33: a target whose type is empty is open on the type: when DeleteRecords
\* returns without an error, every listed record of the target's name, of
\* whatever type, that matches the target's other given fields has been
\* deleted from the remote
C33_EmptyTypeDeletesAllTypes ==
    (callReturned /\ method = "DeleteRecords" /\ retErr = <<>>) =>
        \A i \in DOMAIN records : \A j \in DOMAIN upstreamRecords :
            passesAnyType(records[i], upstreamRecords[j]) =>
                /\ \E k \in DOMAIN deletesDone :
                       deletesDone[k].record = upstreamRecords[j].Id
                /\ \A x \in DOMAIN remote :
                       remote[x].Id # upstreamRecords[j].Id


\* C36: when the listed records carry pairwise distinct identifiers, each
\* identifier is carried by at most one operation of the list
\* makeOperationList returns, every add carries the empty identifier, and
\* every modify and every delete carries the identifier of a listed record
\* of the (name, type) group of the record it carries
C36_IdentifiersWellFormed ==
    (pc = "loop" /\ distinctIds) =>
        /\ \A i, j \in DOMAIN oplist :
               (i # j /\ oplist[i].op # addRecord /\ oplist[j].op # addRecord)
                   => oplist[i].record.Id # oplist[j].record.Id
        /\ \A i \in DOMAIN oplist :
               IF oplist[i].op = addRecord THEN oplist[i].record.Id = <<>>
               ELSE \E j \in DOMAIN upstreamRecords :
                        /\ upstreamRecords[j].Id = oplist[i].record.Id
                        /\ keyOf(upstreamRecords[j]) = keyOf(oplist[i].record)

\* makeOperationList returned a delete, a modify and an add for a listing of
\* two records of one group and desired records of two groups
C36_Witness ==
    /\ pc = "loop"
    /\ distinctIds
    /\ Len(upstreamRecords) = 2
    /\ {oplist[i].op : i \in DOMAIN oplist}
           = {addRecord, modifyRecord, deleteRecord}

----------------------------------------------------------------------------
(* Properties of RetryWithBackoff on its own *)

\* the smaller of two numbers
smaller(a, b) == IF a < b THEN a ELSE b

\* C34: the k-th wait of RetryWithBackoff (k = 0, 1, ...) lasts
\* min(initialBackoff * 2^k, maxBackoff), so no wait is longer than
\* maxBackoff, whatever initialBackoff and maxBackoff are, and no wait
\* follows the last attempt
C34_BackoffDoublesCapped ==
    /\ \A k \in DOMAIN waited :
           /\ waited[k] = smaller(arg.initialBackoff * 2 ^ (k - 1),
                                  arg.maxBackoff)
           /\ waited[k] <= arg.maxBackoff
    /\ pc = "wait" => attempt < arg.maxRetries - 1
    /\ Len(waited) <= IF arg.maxRetries > 0 THEN arg.maxRetries - 1 ELSE 0


\* C35: RetryWithBackoff returns nil only if an execution of the operation
\* succeeded, for every maxRetries, zero and negative ones included: a return
\* without such an execution carries ctx.Err() or an error
C35_NilOnlyOnSuccess ==
    (pc = "returned" /\ retErr = <<>>) =>
        \E k \in DOMAIN calls : calls[k].ok


----------------------------------------------------------------------------
(* Properties of the methods taken together *)

\* the listing the method starts with has failed
fetchFailed ==
    \/ method = "SetRecords" /\ retFetchErr
    \/ /\ method = "DeleteRecords"
       /\ calls # <<>>
       /\ calls[1].call = "GetClouDNSRecords"
       /\ ~calls[1].ok

\* C37: when the listing SetRecords or DeleteRecords starts with fails, the
\* method returns that error and no records, makes no other remote call, and
\* the zone is as the call found it
C37_FetchFailureChangesNothing ==
    fetchFailed =>
        /\ pc = "done"
        /\ ret = <<>>
        /\ remote = arg.zone
        /\ nextId = MaxRemote + 1
        /\ handed = <<>>
        /\ IF method = "SetRecords" THEN calls = <<>> /\ retErr = <<>>
           ELSE Len(calls) = 1 /\ retErr = fetchError(failure(1))

\* the listing failed for a call that had records to change in a zone that
\* holds records
C37_Witness ==
    /\ fetchFailed
    /\ pc = "done"
    /\ records # <<>>
    /\ remote # <<>>


\* C39: every call terminates when the remote always answers, whatever it
\* answers: the method returns; a RetryWithBackoff makes at most maxRetries
\* executions and maxRetries - 1 waits; the walk of a group yields at most one
\* operation per position; and SetRecords makes one listing and hands each
\* operation to RetryWithBackoff once, so at most Len(oplist) * maxRetries
\* calls follow the listing
C39_Terminates ==
    /\ <>(pc = "done")
    /\ [](/\ execs <= getOperationRetries
          /\ Len(waited) <= getOperationRetries - 1
          /\ Len(oplist) <= Len(upstreamRecords) + Len(records)
          /\ method = "SetRecords" =>
                 /\ Len(handed) <= Len(oplist)
                 /\ \A i, j \in DOMAIN handed : handed[i] = handed[j] => i = j
                 /\ Len(calls) <= Len(handed))

\* SetRecords returned after two operations, the first of which had failed
\* on every attempt it was allowed
C39_Witness ==
    /\ method = "SetRecords"
    /\ pc = "done"
    /\ Len(oplist) = 2
    /\ getOperationRetries = 2
    /\ outcome = <<"failed", "ok">>

----------------------------------------------------------------------------
(* Properties of two SetRecords calls for one zone *)

\* call d made its listing after call c had made the last of its remote
\* calls, and every operation of call c succeeded
serialized(c, d) ==
    /\ pc[c] = "done"
    /\ \A k \in DOMAIN outcome[c] : outcome[c][k] = "ok"
    /\ \E i \in DOMAIN calls :
           /\ calls[i].by = d
           /\ calls[i].call = "GetClouDNSRecords"
           /\ \A j \in DOMAIN calls : calls[j].by = c => j < i

\* both calls made their listing before either changed the zone
bothFetchedFirst ==
    /\ Len(calls) >= 2
    /\ calls[1].call = "GetClouDNSRecords"
    /\ calls[2].call = "GetClouDNSRecords"

\* the zone holds two records of one content under two identifiers
duplicateContent ==
    \E i, j \in DOMAIN remote :
        /\ i # j
        /\ remote[i].Id # remote[j].Id
        /\ compareIDlessRecord(remote[i], remote[j])

\* the operation lists SetRecords can build for the records from a listing
plansFrom(listing) ==
    LET existing == clouDNSRecordsToMap(listing)
        rrsets == libdnsRecordsToMap(records)
    IN  {makeOperationList(rrsets, existing, keyOrder, delOrder) :
            keyOrder \in Orders(DOMAIN rrsets),
            delOrder \in Orders(deletedSet(rrsets, existing))}

\* C38: two SetRecords calls with the same records for one zone share the
\* zone only: the operation list of each is one built from the listing that
\* call made, whatever the other has done to the zone since; and when one
\* call makes its listing after the other is through with the zone, all
\* operations of the other having succeeded, it has no operation to apply
C38_CallsShareTheZoneOnly ==
    \A c, d \in Callers :
        /\ pc[d] \in {"loop", "done"} => oplist[d] \in plansFrom(upstreamRecords[d])
        /\ (c # d /\ serialized(c, d) /\ pc[d] \in {"loop", "done"})
               => oplist[d] = <<>>

\* the race of C38: both calls listed the zone before either changed it, both
\* added the one record asked for, and the zone ends with it twice
C38_Witness ==
    /\ bothFetchedFirst
    /\ pc = [c \in Callers |-> "done"]
    /\ Len(records) = 1
    /\ \A c \in Callers :
           /\ Len(oplist[c]) = 1
           /\ oplist[c][1].op = addRecord
           /\ outcome[c] = <<"ok">>
    /\ oplist[1] = oplist[2]
    /\ duplicateContent

============================================================================
